---- MODULE Spec2Model ----
(***************************************************************************)
(* A model of the image-analysis aggregator: the fan-out of one request   *)
(* to the analyzers (server.js performAnalysis), the bounding-box         *)
(* clustering engine (BoundingBoxService), the emoji voting engine        *)
(* (V3VotingService) and the response assembler (ResponseFormatter).      *)
(*                                                                         *)
(* Units.  Confidences are integers in hundredths (0.85 is 85); averaged  *)
(* confidences are in thousandths, as the code rounds them to 3 decimals.  *)
(* An IoU is kept as the exact pair <<intersection, union>>; a cluster     *)
(* score is kept in millionths.  Emoji are named by tokens ("chair") that  *)
(* stand for the code points the analyzers send.                           *)
(***************************************************************************)
EXTENDS Integers, Sequences, FiniteSets, TLC

(***************************************************************************)
(* Generic sequence helpers (Array.prototype.map / filter / reduce).       *)
(***************************************************************************)
Range(s) == { s[i] : i \in DOMAIN s }

RECURSIVE SumSeq(_)
SumSeq(s) == IF s = <<>> THEN 0 ELSE Head(s) + SumSeq(Tail(s))

RECURSIVE FlattenSeq(_)
FlattenSeq(ss) == IF ss = <<>> THEN <<>> ELSE Head(ss) \o FlattenSeq(Tail(ss))

MinOf(S) == CHOOSE m \in S : \A n \in S : m <= n
MaxOf(S) == CHOOSE m \in S : \A n \in S : m >= n

\* Math.round of the non-negative rational num/den (round half up).
RoundDiv(num, den) == (2 * num + den) \div (2 * den)

\* Position of the first element of s satisfying "is x", 0 when absent.
IndexOf(s, x) == IF \E i \in DOMAIN s : s[i] = x
                 THEN MinOf({ i \in DOMAIN s : s[i] = x }) ELSE 0

\* The distinct elements of s in order of first occurrence ([...new Set(s)]).
RECURSIVE Distinct(_)
Distinct(s) ==
    IF s = <<>> THEN <<>>
    ELSE LET init == Distinct(SubSeq(s, 1, Len(s) - 1))
             last == s[Len(s)]
         IN  IF last \in Range(init) THEN init ELSE Append(init, last)

(***************************************************************************)
(* Program constants.                                                      *)
(***************************************************************************)
\* cleanCluster: CONFIDENCE_SHOUT_THRESHOLD = 0.85, in hundredths.
CONFIDENCE_SHOUT_THRESHOLD == 85
\* findCrossServiceClusters: overlapRatio > 0.3, as the fraction 3/10.
IoUThresholdNum == 3
IoUThresholdDen == 10
\* findOverlapClusters: overlapRatio > 0.05, as the fraction 5/100.
LegacyOverlapNum == 5
LegacyOverlapDen == 100
\* V3VotingService: defaultConfidence = 0.75, in hundredths.
defaultConfidence == 75

\* log10(n) in millionths for n = 1..64 (Math.log10).
Log10Table ==
  <<0, 301030, 477121, 602060, 698970, 778151, 845098, 903090, 954243,
    1000000, 1041393, 1079181, 1113943, 1146128, 1176091, 1204120, 1230449,
    1255273, 1278754, 1301030, 1322219, 1342423, 1361728, 1380211, 1397940,
    1414973, 1431364, 1447158, 1462398, 1477121, 1491362, 1505150, 1518514,
    1531479, 1544068, 1556303, 1568202, 1579784, 1591065, 1602060, 1612784,
    1623249, 1633468, 1643453, 1653213, 1662758, 1672098, 1681241, 1690196,
    1698970, 1707570, 1716003, 1724276, 1732394, 1740363, 1748188, 1755875,
    1763428, 1770852, 1778151, 1785330, 1792392, 1799341, 1806180>>

(***************************************************************************)
(* BoundingBoxService                                                      *)
(***************************************************************************)
\* The services whose predictions are scanned for a bbox, in scan order.
bboxServices ==
  <<"yolo", "detectron2", "rtdetr", "yolo_365", "yolo_oi7", "face", "clip", "inception">>

\* normalizeEmoji (utils/emojiUtils): Unicode NFC normalisation of the key.
\* "chair_nfd" stands for a canonically equivalent spelling of "chair".
normalizeEmoji(rawKey) == IF rawKey = "chair_nfd" THEN "chair" ELSE rawKey

\* scaleCoordinates, for measured dimensions (with null dimensions the read
\* of displayDimensions.width throws: see processBoundingBoxes).
scaleCoordinates(bbox, processingDimensions, displayDimensions) ==
    [ x      |-> RoundDiv(bbox.x * displayDimensions.width, processingDimensions.width),
      y      |-> RoundDiv(bbox.y * displayDimensions.height, processingDimensions.height),
      width  |-> RoundDiv(bbox.width * displayDimensions.width, processingDimensions.width),
      height |-> RoundDiv(bbox.height * displayDimensions.height, processingDimensions.height) ]

\* calculateOverlapRatio: the IoU as <<intersection area, union area>>;
\* <<0, 1>> is the code's "return 0".
calculateOverlapRatio(box1, box2) ==
    LET x1 == IF box1.x >= box2.x THEN box1.x ELSE box2.x
        y1 == IF box1.y >= box2.y THEN box1.y ELSE box2.y
        r1 == box1.x + box1.width
        r2 == box2.x + box2.width
        b1 == box1.y + box1.height
        b2 == box2.y + box2.height
        x2 == IF r1 <= r2 THEN r1 ELSE r2
        y2 == IF b1 <= b2 THEN b1 ELSE b2
        intersectionArea == (x2 - x1) * (y2 - y1)
        box1Area == box1.width * box1.height
        box2Area == box2.width * box2.height
        unionArea == box1Area + box2Area - intersectionArea
    IN  IF x1 >= x2 \/ y1 >= y2 THEN <<0, 1>>
        ELSE <<intersectionArea, unionArea>>

\* overlapRatio > num/den.  The division of two areas below 2^53 rounds to
\* the double of the literal exactly when the fraction equals it, so the
\* comparison of doubles agrees with the comparison of fractions.
RatioExceeds(ratio, num, den) == ratio[1] * den > num * ratio[2]

\* The inner loop with the comparison >= 0.3.
AnchorJoinersInclusive(detections, i, used) ==
    { j \in (i + 1)..Len(detections) :
        /\ j \notin used
        /\ LET ratio == calculateOverlapRatio(detections[i].bbox, detections[j].bbox)
           IN  ratio[1] * IoUThresholdDen >= IoUThresholdNum * ratio[2] }

\* The inner loop of findCrossServiceClusters: the later unused indices j
\* whose box overlaps the box of the INITIAL detection i by more than 0.3.
AnchorJoiners(detections, i, used) ==
    { j \in (i + 1)..Len(detections) :
        /\ j \notin used
        /\ RatioExceeds(calculateOverlapRatio(detections[i].bbox, detections[j].bbox),
                        IoUThresholdNum, IoUThresholdDen) }

\* The elements of s at the indices of I, in ascending index order.
RECURSIVE PickInOrder(_, _, _)
PickInOrder(s, I, from) ==
    IF from > Len(s) THEN <<>>
    ELSE (IF from \in I THEN <<s[from]>> ELSE <<>>) \o PickInOrder(s, I, from + 1)

RECURSIVE CrossServiceLoop(_, _, _)
CrossServiceLoop(detections, i, used) ==
    IF i > Len(detections) THEN <<>>
    ELSE IF i \in used THEN CrossServiceLoop(detections, i + 1, used)
    ELSE LET joined == AnchorJoiners(detections, i, used)
             cluster == <<detections[i]>> \o PickInOrder(detections, joined, i + 1)
         IN  <<cluster>> \o CrossServiceLoop(detections, i + 1, used \cup {i} \cup joined)

findCrossServiceClusters(detections) == CrossServiceLoop(detections, 1, {})

\* findOverlapClusters (legacy): j joins when it overlaps ANY current member
\* of the cluster by more than 0.05; members join in index order.
RECURSIVE OverlapGrow(_, _, _, _)
OverlapGrow(detections, memberIdx, j, used) ==
    IF j > Len(detections) THEN memberIdx
    ELSE IF j \notin used
            /\ \E m \in Range(memberIdx) :
                 RatioExceeds(calculateOverlapRatio(detections[m].bbox, detections[j].bbox),
                              LegacyOverlapNum, LegacyOverlapDen)
         THEN OverlapGrow(detections, Append(memberIdx, j), j + 1, used)
         ELSE OverlapGrow(detections, memberIdx, j + 1, used)

RECURSIVE OverlapLoop(_, _, _)
OverlapLoop(detections, i, used) ==
    IF i > Len(detections) THEN <<>>
    ELSE IF i \in used THEN OverlapLoop(detections, i + 1, used)
    ELSE LET memberIdx == OverlapGrow(detections, <<i>>, i + 1, used)
         IN  <<[k \in DOMAIN memberIdx |-> detections[memberIdx[k]]]>>
               \o OverlapLoop(detections, i + 1, used \cup Range(memberIdx))

findOverlapClusters(detections) == OverlapLoop(detections, 1, {})

\* Math.log10(Math.max(avgArea, 1)) for avgArea = sumArea / n, in millionths.
LogAvgArea(sumArea, n) ==
    IF sumArea <= n THEN 0 ELSE Log10Table[sumArea] - Log10Table[n]

\* calculateClusterScore: 2*size + 3*avgConfidence + log10(avgArea), in
\* millionths.
calculateClusterScore(cluster) ==
    LET n == Len(cluster)
        sumConf == SumSeq([k \in DOMAIN cluster |-> cluster[k].confidence])
        sumArea == SumSeq([k \in DOMAIN cluster |->
                              cluster[k].bbox.width * cluster[k].bbox.height])
    IN  n * 2000000 + (sumConf * 30000) \div n + LogAvgArea(sumArea, n)

\* clusters.sort((a, b) => score(b) - score(a)): a stable sort, best first.
RECURSIVE InsertByScore(_, _)
InsertByScore(sorted, e) ==
    IF sorted = <<>> THEN <<e>>
    ELSE IF calculateClusterScore(Head(sorted)) >= calculateClusterScore(e)
         THEN <<Head(sorted)>> \o InsertByScore(Tail(sorted), e)
         ELSE <<e>> \o sorted

RECURSIVE SortByScore(_)
SortByScore(s) ==
    IF s = <<>> THEN <<>>
    ELSE InsertByScore(SortByScore(SubSeq(s, 1, Len(s) - 1)), s[Len(s)])

\* The first detection of the service kept, whatever its confidence.
BestOfFirst(detections) == detections[1]

\* detections.reduce((a, b) => a.confidence > b.confidence ? a : b): the
\* highest confidence, the LAST one among equals.
RECURSIVE BestOf(_)
BestOf(detections) ==
    IF Len(detections) = 1 THEN detections[1]
    ELSE LET a == BestOf(SubSeq(detections, 1, Len(detections) - 1))
             b == detections[Len(detections)]
         IN  IF a.confidence > b.confidence THEN a ELSE b

\* cleanCluster with a singleton at the threshold dropped too.
cleanClusterDroppingThreshold(cluster) ==
    IF cluster = <<>> THEN <<>>
    ELSE LET services == Distinct([k \in DOMAIN cluster |-> cluster[k].service])
             ofService(s) == SelectSeq(cluster, LAMBDA d : d.service = s)
             cleanedDetections ==
                 [k \in DOMAIN services |-> BestOf(ofService(services[k]))]
         IN  IF Len(cleanedDetections) = 1
                /\ cleanedDetections[1].confidence <= CONFIDENCE_SHOUT_THRESHOLD
             THEN <<>>
             ELSE cleanedDetections

\* cleanCluster; <<>> is the code's null.
cleanCluster(cluster) ==
    IF cluster = <<>> THEN <<>>
    ELSE LET services == Distinct([k \in DOMAIN cluster |-> cluster[k].service])
             ofService(s) == SelectSeq(cluster, LAMBDA d : d.service = s)
             cleanedDetections ==
                 [k \in DOMAIN services |->
                     IF Len(ofService(services[k])) > 1
                     THEN BestOf(ofService(services[k]))
                     ELSE ofService(services[k])[1]]
         IN  IF Len(cleanedDetections) = 1
                /\ cleanedDetections[1].confidence < CONFIDENCE_SHOUT_THRESHOLD
             THEN <<>>
             ELSE cleanedDetections

\* The box of the first member taken for the merged box.
MergedBboxOfFirst(cluster) == cluster[1].bbox

\* The merged box of createCrossServiceInstances / createMultipleClusters.
MergedBbox(cluster) ==
    IF Len(cluster) = 1 THEN cluster[1].bbox
    ELSE LET boxes == [k \in DOMAIN cluster |-> cluster[k].bbox]
             x1 == MinOf({ boxes[k].x : k \in DOMAIN boxes })
             y1 == MinOf({ boxes[k].y : k \in DOMAIN boxes })
             x2 == MaxOf({ boxes[k].x + boxes[k].width : k \in DOMAIN boxes })
             y2 == MaxOf({ boxes[k].y + boxes[k].height : k \in DOMAIN boxes })
         IN  [x |-> x1, y |-> y1, width |-> x2 - x1, height |-> y2 - y1]

\* The instance object built for the cleaned cluster at position index.
\* members lists the all_detections positions of the cluster's detections
\* (the identity of the detection objects held by the cluster array).
MakeInstance(cluster, index, emoji) ==
    [ cluster_id      |-> <<cluster[1].label, index>>,
      emoji           |-> emoji,
      label           |-> cluster[1].label,
      merged_bbox     |-> MergedBbox(cluster),
      detection_count |-> Len(cluster),
      avg_confidence  |->
          RoundDiv(SumSeq([k \in DOMAIN cluster |-> cluster[k].confidence]) * 10,
                   Len(cluster)),
      detections      |-> [k \in DOMAIN cluster |->
                              [service |-> cluster[k].service,
                               confidence |-> cluster[k].confidence]],
      members         |-> [k \in DOMAIN cluster |-> cluster[k].idx] ]

\* The cleaned clusters of one group, best raw score first.
CleanedClusters(detections) ==
    LET crossServiceClusters ==
            SortByScore(findCrossServiceClusters(detections))
        mapped == [k \in DOMAIN crossServiceClusters |->
                      cleanCluster(crossServiceClusters[k])]
    IN  SelectSeq(mapped, LAMBDA c : c # <<>>)

createCrossServiceInstances(detections, emoji) ==
    IF detections = <<>> THEN <<>>
    ELSE LET cleanedClusters == CleanedClusters(detections)
         IN  [k \in DOMAIN cleanedClusters |->
                 MakeInstance(cleanedClusters[k], k, emoji)]

\* createMultipleClusters (kept "for backward compatibility").
createMultipleClusters(detections) ==
    IF detections = <<>> THEN <<>>
    ELSE LET clusters == SortByScore(findOverlapClusters(detections))
         IN  [k \in DOMAIN clusters |->
                 [ cluster_id      |-> k - 1,
                   merged_bbox     |-> MergedBbox(clusters[k]),
                   detection_count |-> Len(clusters[k]),
                   services        |-> [m \in DOMAIN clusters[k] |-> clusters[k][m].service],
                   members         |-> [m \in DOMAIN clusters[k] |-> clusters[k][m].idx] ]]

\* The grouping key of a detection.
GroupKey(detection) ==
    normalizeEmoji(IF detection.type = "face_detection" THEN "face" ELSE detection.emoji)

\* groupByLabelWithCrossServiceClustering: the groups in order of the first
\* detection of each key; label, emoji and type are those of that detection.
groupByLabelWithCrossServiceClustering(detections) ==
    LET keys == Distinct([k \in DOMAIN detections |-> GroupKey(detections[k])])
        ofKey(key) == SelectSeq(detections, LAMBDA d : GroupKey(d) = key)
    IN  [k \in DOMAIN keys |->
            LET members == ofKey(keys[k])
            IN  [ key        |-> keys[k],
                  label      |-> members[1].label,
                  emoji      |-> members[1].emoji,
                  type       |-> members[1].type,
                  detections |-> members,
                  instances  |-> createCrossServiceInstances(members, members[1].emoji),
                  clusters   |-> createMultipleClusters(members) ]]

\* Image dimensions: measured = FALSE is the code's null (sizeOf threw).
NullDimensions == [measured |-> FALSE, width |-> 0, height |-> 0]

\* results[serviceName]: the entry of the result map, or Undefined.
Undefined == [name |-> "undefined", success |-> FALSE, error |-> <<>>, predictions |-> <<>>]
ResultOf(results, serviceName) ==
    IF \E i \in DOMAIN results : results[i].name = serviceName
    THEN results[CHOOSE i \in DOMAIN results : results[i].name = serviceName]
    ELSE Undefined

\* The predictions processBoundingBoxes turns into detections, in scan
\* order: for each bbox service in turn, its predictions that carry a bbox.
BboxPredictions(results) ==
    FlattenSeq([s \in DOMAIN bboxServices |->
        LET preds == SelectSeq(ResultOf(results, bboxServices[s]).predictions,
                               LAMBDA p : p.hasBbox)
        IN  [k \in DOMAIN preds |-> [service |-> bboxServices[s], prediction |-> preds[k]]]])

\* processBoundingBoxes.  With null dimensions the first prediction that
\* carries a bbox makes scaleCoordinates read a property of null: the
\* async function rejects with a TypeError (threw = TRUE).
processBoundingBoxes(results, imageDimensions) ==
    LET found == BboxPredictions(results)
    IN  IF found # <<>> /\ ~imageDimensions.measured
        THEN [threw |-> TRUE, all_detections |-> <<>>, grouped |-> <<>>]
        ELSE LET allDetections ==
                     [k \in DOMAIN found |->
                        [ idx           |-> k,
                          service       |-> found[k].service,
                          label         |-> found[k].prediction.label,
                          emoji         |-> found[k].prediction.emoji,
                          bbox          |-> scaleCoordinates(found[k].prediction.bbox,
                                                             imageDimensions, imageDimensions),
                          original_bbox |-> found[k].prediction.bbox,
                          confidence    |-> found[k].prediction.confidence,
                          type          |-> found[k].prediction.type ]]
             IN  [ threw          |-> FALSE,
                   all_detections |-> allDetections,
                   grouped        |-> groupByLabelWithCrossServiceClustering(allDetections) ]

(***************************************************************************)
(* V3VotingService                                                         *)
(***************************************************************************)
\* The emoji literals of the voting service.  The source file holds them
\* as mis-encoded text, so they are strings of their own, different from
\* the code points "person", "face", "nsfw" an analyzer sends.
PersonLiteral == "lit_person"
FaceLiteral   == "lit_face"
NsfwLiteral   == "lit_nsfw"

\* this.serviceNames[serviceName] || serviceName
serviceDisplayName(serviceName) == IF serviceName = "ollama" THEN "llama" ELSE serviceName

getEvidenceType(serviceName) ==
    IF serviceName \in {"yolo", "detectron2", "rtdetr", "yolo_365", "yolo_oi7", "clip", "inception"}
    THEN "spatial"
    ELSE IF serviceName \in {"blip", "ollama"} THEN "semantic"
    ELSE IF serviceName \in {"face", "nsfw", "ocr"} THEN "specialized"
    ELSE "other"

NoSpatialData ==
    [ cluster_id |-> <<"", 0>>, detection_count |-> 0, avg_confidence |-> 0,
      bbox |-> [x |-> 0, y |-> 0, width |-> 0, height |-> 0],
      individual_detections |-> <<>> ]

\* Candidates that take the direct emoji of a prediction of any type.
PredictionCandidatesAnyType(serviceName, prediction) ==
    IF prediction.hasMappings
    THEN LET ms == SelectSeq(prediction.emoji_mappings, LAMBDA m : m.emoji # "")
         IN  [k \in DOMAIN ms |->
                [ emoji |-> ms[k].emoji,
                  service |-> serviceDisplayName(serviceName),
                  evidence_type |-> getEvidenceType(serviceName),
                  confidence |-> defaultConfidence,
                  word |-> ms[k].word,
                  shiny |-> ms[k].shiny,
                  hasSpatialData |-> FALSE,
                  spatial_data |-> NoSpatialData ]]
    ELSE IF prediction.emoji # ""
    THEN << [ emoji |-> prediction.emoji,
              service |-> serviceDisplayName(serviceName),
              evidence_type |-> getEvidenceType(serviceName),
              confidence |-> IF prediction.confidence # 0 THEN prediction.confidence
                             ELSE defaultConfidence,
              word |-> "",
              shiny |-> prediction.shiny,
              hasSpatialData |-> FALSE,
              spatial_data |-> NoSpatialData ] >>
    ELSE <<>>

\* The detections one prediction would push if none of its emoji had been
\* seen: one per mapping of a caption prediction, else one for a direct
\* emoji unless the prediction is a color_analysis.  "" is no emoji.
PredictionCandidates(serviceName, prediction) ==
    IF prediction.hasMappings
    THEN LET ms == SelectSeq(prediction.emoji_mappings, LAMBDA m : m.emoji # "")
         IN  [k \in DOMAIN ms |->
                [ emoji |-> ms[k].emoji,
                  service |-> serviceDisplayName(serviceName),
                  evidence_type |-> getEvidenceType(serviceName),
                  confidence |-> defaultConfidence,
                  word |-> ms[k].word,
                  shiny |-> ms[k].shiny,
                  hasSpatialData |-> FALSE,
                  spatial_data |-> NoSpatialData ]]
    ELSE IF prediction.emoji # "" /\ prediction.type # "color_analysis"
    THEN << [ emoji |-> prediction.emoji,
              service |-> serviceDisplayName(serviceName),
              evidence_type |-> getEvidenceType(serviceName),
              confidence |-> IF prediction.confidence # 0 THEN prediction.confidence
                             ELSE defaultConfidence,
              word |-> "",
              shiny |-> prediction.shiny,
              hasSpatialData |-> FALSE,
              spatial_data |-> NoSpatialData ] >>
    ELSE <<>>

\* seenEmojis: of the candidates of one service keep, per emoji, the first.
RECURSIVE FirstPerEmoji(_, _)
FirstPerEmoji(candidates, seenEmojis) ==
    IF candidates = <<>> THEN <<>>
    ELSE IF Head(candidates).emoji \in seenEmojis
         THEN FirstPerEmoji(Tail(candidates), seenEmojis)
         ELSE <<Head(candidates)>>
                \o FirstPerEmoji(Tail(candidates), seenEmojis \cup {Head(candidates).emoji})

ServiceDetections(entry) ==
    IF ~entry.success THEN <<>>
    ELSE FirstPerEmoji(
            FlattenSeq([k \in DOMAIN entry.predictions |->
                           PredictionCandidates(entry.name, entry.predictions[k])]), {})

\* The sentinel detections: one per instance of each group with an emoji.
SpatialSentinels(grouped) ==
    FlattenSeq([g \in DOMAIN grouped |->
        IF grouped[g].emoji = "" THEN <<>>
        ELSE [i \in DOMAIN grouped[g].instances |->
                LET instance == grouped[g].instances[i]
                IN  [ emoji |-> grouped[g].emoji,
                      service |-> "spatial_clustering",
                      evidence_type |-> "spatial",
                      confidence |-> instance.avg_confidence,
                      word |-> "",
                      shiny |-> FALSE,
                      hasSpatialData |-> TRUE,
                      spatial_data |->
                        [ cluster_id |-> instance.cluster_id,
                          detection_count |-> instance.detection_count,
                          avg_confidence |-> instance.avg_confidence,
                          bbox |-> instance.merged_bbox,
                          individual_detections |-> instance.detections ] ]]])

\* extractAllDetections: the services in the order of the result map's
\* keys, then the sentinels.
extractAllDetections(serviceResults, boundingBoxData) ==
    FlattenSeq([r \in DOMAIN serviceResults |-> ServiceDetections(serviceResults[r])])
      \o SpatialSentinels(boundingBoxData.grouped)

\* groupDetectionsByEmoji: groups in order of first detection of the emoji.
groupDetectionsByEmoji(allDetections) ==
    LET emojis == Distinct([k \in DOMAIN allDetections |-> allDetections[k].emoji])
    IN  [e \in DOMAIN emojis |->
            [ emoji |-> emojis[e],
              detections |-> SelectSeq(allDetections, LAMBDA d : d.emoji = emojis[e]) ]]

\* analyzeSpatialEvidence; present = FALSE is the code's null.
analyzeSpatialEvidence(detections) ==
    LET spatialDetections == SelectSeq(detections, LAMBDA d : d.evidence_type = "spatial")
        withData == SelectSeq(spatialDetections, LAMBDA d : d.hasSpatialData)
        clusters == [k \in DOMAIN withData |-> withData[k].spatial_data]
    IN  IF clusters = <<>>
        THEN [ present |-> FALSE, service_count |-> 0, clusters |-> <<>>,
               max_detection_count |-> 0, total_instances |-> 0 ]
        ELSE [ present |-> TRUE,
               service_count |-> Len(spatialDetections),
               clusters |-> clusters,
               max_detection_count |->
                   MaxOf({ clusters[k].detection_count : k \in DOMAIN clusters }),
               total_instances |-> Len(clusters) ]

\* service_count of analyzeSemanticEvidence / analyzeClassificationEvidence
\* (0 where the code returns null and the caller reads "|| 0").
EvidenceCount(detections, evidenceType) ==
    Len(SelectSeq(detections, LAMBDA d : d.evidence_type = evidenceType))

\* Object.keys(analyzeSpecializedEvidence(detections)); <<>> for null.
analyzeSpecializedEvidence(detections) ==
    LET sp == SelectSeq(detections, LAMBDA d : d.evidence_type = "specialized")
    IN  Distinct([k \in DOMAIN sp |-> sp[k].service])

\* A weight whose content bonus counts every content service.
calculateEvidenceWeightFullContent(analysis) ==
    LET totalContentServices == analysis.semantic_count + analysis.classification_count
    IN  analysis.total_votes
          + (IF analysis.spatial.present /\ analysis.spatial.max_detection_count > 1
             THEN analysis.spatial.max_detection_count - 1 ELSE 0)
          + (IF totalContentServices >= 2 THEN totalContentServices ELSE 0)

\* calculateEvidenceWeight.
calculateEvidenceWeight(analysis) ==
    LET baseVotes == analysis.total_votes
        spatialConsensusBonus ==
            IF analysis.spatial.present
            THEN (IF analysis.spatial.max_detection_count - 1 > 0
                  THEN analysis.spatial.max_detection_count - 1 ELSE 0)
            ELSE 0
        totalContentServices == analysis.semantic_count + analysis.classification_count
        contentConsensusBonus ==
            IF totalContentServices >= 2 THEN totalContentServices - 1 ELSE 0
        weight == baseVotes + spatialConsensusBonus + contentConsensusBonus
    IN  IF weight > 0 THEN weight ELSE 0

\* An inclusion rule that asks for more than two votes.
shouldIncludeAboveTwo(analysis) == analysis.total_votes > 2

\* shouldIncludeInResults.
shouldIncludeInResults(analysis) == analysis.total_votes > 1

\* The voters without the filter on the sentinel.
VotingServicesWithSentinel(detections) ==
    Distinct([k \in DOMAIN detections |-> detections[k].service])

\* votingServices of analyzeEmojiEvidence: the distinct services of the
\* group, the spatial_clustering sentinel left out.
VotingServices(detections) ==
    Distinct(SelectSeq([k \in DOMAIN detections |-> detections[k].service],
                       LAMBDA s : s # "spatial_clustering"))

\* analyzeEmojiEvidence for one group, with the fields calculateFinalRanking
\* adds to it.
AnalyzeGroup(group) ==
    LET detections == group.detections
        votingServices == VotingServices(detections)
        base == [ emoji |-> group.emoji,
                  total_votes |-> Len(votingServices),
                  voting_services |-> votingServices,
                  spatial |-> analyzeSpatialEvidence(detections),
                  semantic_count |-> EvidenceCount(detections, "semantic"),
                  classification_count |-> EvidenceCount(detections, "classification"),
                  specialized |-> analyzeSpecializedEvidence(detections),
                  shiny |-> \E k \in DOMAIN detections : detections[k].shiny ]
        weight == calculateEvidenceWeight(base)
    IN  [ emoji |-> base.emoji,
          total_votes |-> base.total_votes,
          voting_services |-> base.voting_services,
          spatial |-> base.spatial,
          semantic_count |-> base.semantic_count,
          classification_count |-> base.classification_count,
          specialized |-> base.specialized,
          shiny |-> base.shiny,
          evidence_weight |-> weight,
          final_score |-> base.total_votes + weight,
          should_include |-> shouldIncludeInResults(base) ]

analyzeEmojiEvidence(emojiGroups) ==
    [g \in DOMAIN emojiGroups |-> AnalyzeGroup(emojiGroups[g])]

\* The comparator of calculateFinalRanking: a goes before b when it has
\* more votes, or as many votes and more weight.
RanksBefore(a, b) ==
    \/ a.total_votes > b.total_votes
    \/ a.total_votes = b.total_votes /\ a.evidence_weight > b.evidence_weight

RECURSIVE InsertRanked(_, _)
InsertRanked(sorted, e) ==
    IF sorted = <<>> THEN <<e>>
    ELSE IF RanksBefore(e, Head(sorted))
         THEN <<e>> \o sorted
         ELSE <<Head(sorted)>> \o InsertRanked(Tail(sorted), e)

RECURSIVE SortRanked(_)
SortRanked(s) ==
    IF s = <<>> THEN <<>>
    ELSE InsertRanked(SortRanked(SubSeq(s, 1, Len(s) - 1)), s[Len(s)])

\* The item calculateFinalRanking emits for an included analysis.  An empty
\* bounding_boxes / validation and shiny = FALSE are absent fields.
ConsensusItem(analysis) ==
    [ emoji           |-> analysis.emoji,
      votes           |-> analysis.total_votes,
      evidence_weight |-> analysis.evidence_weight,
      final_score     |-> analysis.final_score,
      instances       |-> IF \E k \in DOMAIN analysis.spatial.clusters : TRUE
                          THEN [count |-> Len(analysis.spatial.clusters), type |-> "spatial"]
                          ELSE [count |-> 1, type |-> "non_spatial"],
      specialized     |-> analysis.specialized,
      services        |-> analysis.voting_services,
      bounding_boxes  |->
          [k \in DOMAIN analysis.spatial.clusters |->
              [ cluster_id      |-> analysis.spatial.clusters[k].cluster_id,
                merged_bbox     |-> analysis.spatial.clusters[k].bbox,
                emoji           |-> analysis.emoji,
                detection_count |-> analysis.spatial.clusters[k].detection_count,
                avg_confidence  |-> analysis.spatial.clusters[k].avg_confidence,
                detections      |-> analysis.spatial.clusters[k].individual_detections ]],
      validation      |-> <<>>,
      shiny           |-> analysis.shiny ]

\* calculateFinalRanking: filter, stable sort, map.
calculateFinalRanking(emojiAnalysis) ==
    LET included == SortRanked(SelectSeq(emojiAnalysis, LAMBDA a : a.should_include))
    IN  [k \in DOMAIN included |-> ConsensusItem(included[k])]

\* Curation that adjusts evidence_weight and leaves final_score alone.
CurateItemWeightOnly(item, rankedConsensus) ==
    LET inMap(e) == \E k \in DOMAIN rankedConsensus : rankedConsensus[k].emoji = e
        faceRule == item.emoji = PersonLiteral /\ inMap(FaceLiteral)
        nsfwRule == item.emoji = NsfwLiteral
        curationAdjustment ==
            (IF faceRule THEN 1 ELSE 0)
              + (IF nsfwRule THEN (IF inMap(PersonLiteral) THEN 1 ELSE -1) ELSE 0)
        validation ==
            (IF faceRule THEN <<"face_confirmed">> ELSE <<>>)
              \o (IF nsfwRule
                  THEN (IF inMap(PersonLiteral) THEN <<"human_context_confirmed">>
                        ELSE <<"suspicious_no_humans">>)
                  ELSE <<>>)
        clamp(v) == IF v > 0 THEN v ELSE 0
    IN  [item EXCEPT !.validation = validation,
                     !.evidence_weight =
                        IF curationAdjustment # 0 THEN clamp(@ + curationAdjustment) ELSE @]

\* applyPostProcessingCuration.  emojiMap holds the RANKED items only.  The
\* pose rule reads item.evidence.specialized, which calculateFinalRanking
\* has turned into the list of specialized service names.
CurateItem(item, rankedConsensus) ==
    LET inMap(e) == \E k \in DOMAIN rankedConsensus : rankedConsensus[k].emoji = e
        hasPoseDetection ==
            \E k \in DOMAIN rankedConsensus : "pose" \in Range(rankedConsensus[k].specialized)
        faceRule == item.emoji = PersonLiteral /\ inMap(FaceLiteral)
        poseRule == item.emoji = PersonLiteral /\ hasPoseDetection
        nsfwRule == item.emoji = NsfwLiteral
        curationAdjustment ==
            (IF faceRule THEN 1 ELSE 0) + (IF poseRule THEN 1 ELSE 0)
              + (IF nsfwRule THEN (IF inMap(PersonLiteral) THEN 1 ELSE -1) ELSE 0)
        validation ==
            (IF faceRule THEN <<"face_confirmed">> ELSE <<>>)
              \o (IF poseRule THEN <<"pose_confirmed">> ELSE <<>>)
              \o (IF nsfwRule
                  THEN (IF inMap(PersonLiteral) THEN <<"human_context_confirmed">>
                        ELSE <<"suspicious_no_humans">>)
                  ELSE <<>>)
        clamp(v) == IF v > 0 THEN v ELSE 0
    IN  [item EXCEPT !.validation = validation,
                     !.evidence_weight =
                        IF curationAdjustment # 0 THEN clamp(@ + curationAdjustment) ELSE @,
                     !.final_score =
                        IF curationAdjustment # 0 THEN clamp(@ + curationAdjustment) ELSE @]

applyPostProcessingCuration(rankedConsensus) ==
    [k \in DOMAIN rankedConsensus |-> CurateItem(rankedConsensus[k], rankedConsensus)]

\* Special detections that look for the face literal in both sidecars.
extractSpecialDetectionsOneLiteral(serviceResults) ==
    [ text |-> \E k \in DOMAIN ResultOf(serviceResults, "ocr").predictions :
                   ResultOf(serviceResults, "ocr").predictions[k].has_text,
      face |-> /\ ResultOf(serviceResults, "face").success
               /\ \E k \in DOMAIN ResultOf(serviceResults, "face").predictions :
                    ResultOf(serviceResults, "face").predictions[k].emoji = FaceLiteral,
      nsfw |-> /\ ResultOf(serviceResults, "nsfw").success
               /\ \E k \in DOMAIN ResultOf(serviceResults, "nsfw").predictions :
                    ResultOf(serviceResults, "nsfw").predictions[k].emoji = FaceLiteral ]

\* extractSpecialDetections (the detected flags).
extractSpecialDetections(serviceResults) ==
    [ text |-> \E k \in DOMAIN ResultOf(serviceResults, "ocr").predictions :
                   ResultOf(serviceResults, "ocr").predictions[k].has_text,
      face |-> /\ ResultOf(serviceResults, "face").success
               /\ \E k \in DOMAIN ResultOf(serviceResults, "face").predictions :
                    ResultOf(serviceResults, "face").predictions[k].emoji = FaceLiteral,
      nsfw |-> /\ ResultOf(serviceResults, "nsfw").success
               /\ \E k \in DOMAIN ResultOf(serviceResults, "nsfw").predictions :
                    ResultOf(serviceResults, "nsfw").predictions[k].emoji = NsfwLiteral ]

\* processVotes.
processVotes(serviceResults, boundingBoxData) ==
    LET allDetections == extractAllDetections(serviceResults, boundingBoxData)
        emojiGroups == groupDetectionsByEmoji(allDetections)
        emojiAnalysis == analyzeEmojiEvidence(emojiGroups)
        rankedConsensus == calculateFinalRanking(emojiAnalysis)
    IN  [ consensus |-> applyPostProcessingCuration(rankedConsensus),
          special   |-> extractSpecialDetections(serviceResults),
          analysis  |-> emojiAnalysis ]

(***************************************************************************)
(* ResponseFormatter                                                       *)
(***************************************************************************)
\* The service ids in the order of Array.prototype.sort() (UTF-16 order).
SortedServiceIds ==
  <<"blip", "clip", "colors", "detectron2", "face", "inception", "metadata", "nsfw",
    "ocr", "ollama", "rtdetr", "yolo", "yolo_365", "yolo_oi7">>

\* Compact results of the analyzers that succeeded only.
createCompactResultsOfSuccesses(results, serviceStatusList) ==
    LET compact(entry) ==
            [ name        |-> entry.name,
              success     |-> entry.success,
              status      |-> "success",
              predictions |-> entry.predictions ]
        present == SelectSeq(SortedServiceIds,
                             LAMBDA id : \E k \in DOMAIN results :
                                             results[k].name = id /\ results[k].success)
    IN  [k \in DOMAIN present |-> compact(ResultOf(results, present[k]))]

\* createCompactResults: one entry per key of results (every entry of the
\* result map has a predictions array), keys sorted.
createCompactResults(results, serviceStatusList) ==
    LET timingStatus(name) ==
            IF \E k \in DOMAIN serviceStatusList : serviceStatusList[k].service = name
            THEN serviceStatusList[
                    MaxOf({ k \in DOMAIN serviceStatusList :
                              serviceStatusList[k].service = name })].status
            ELSE ""
        compact(entry) ==
            [ name        |-> entry.name,
              success     |-> entry.success,
              status      |-> IF timingStatus(entry.name) # "" THEN timingStatus(entry.name)
                              ELSE IF entry.success THEN "success" ELSE "error",
              predictions |-> entry.predictions ]
        present == SelectSeq(SortedServiceIds,
                             LAMBDA id : \E k \in DOMAIN results : results[k].name = id)
    IN  [k \in DOMAIN present |-> compact(ResultOf(results, present[k]))]

\* integrateEmojiPredictionsWithBoundingBoxes: bboxLookup[group.emoji] is
\* the LAST group with that emoji; an item whose emoji has a lookup entry
\* gets the entry's instances as bounding_boxes, or, when it has none, the
\* legacy clusters.
integrateEmojiPredictionsWithBoundingBoxes(consensus, grouped) ==
    LET hasLookup(e) == \E g \in DOMAIN grouped : grouped[g].emoji = e
        lookup(e) == grouped[MaxOf({ g \in DOMAIN grouped : grouped[g].emoji = e })]
        enhance(item) ==
            IF ~hasLookup(item.emoji) THEN item
            ELSE IF lookup(item.emoji).instances # <<>>
            THEN [item EXCEPT !.bounding_boxes =
                    [k \in DOMAIN lookup(item.emoji).instances |->
                        LET instance == lookup(item.emoji).instances[k]
                        IN  [ cluster_id      |-> instance.cluster_id,
                              merged_bbox     |-> instance.merged_bbox,
                              emoji           |-> instance.emoji,
                              detection_count |-> instance.detection_count,
                              avg_confidence  |-> instance.avg_confidence,
                              detections      |-> instance.detections ]]]
            ELSE IF lookup(item.emoji).clusters # <<>>
            THEN [item EXCEPT !.bounding_boxes =
                    [k \in DOMAIN lookup(item.emoji).clusters |->
                        LET cluster == lookup(item.emoji).clusters[k]
                        IN  [ cluster_id      |-> <<"", cluster.cluster_id>>,
                              merged_bbox     |-> cluster.merged_bbox,
                              emoji           |-> "",
                              detection_count |-> cluster.detection_count,
                              avg_confidence  |-> 0,
                              detections      |->
                                 [m \in DOMAIN cluster.services |->
                                     [service |-> cluster.services[m], confidence |-> 0]] ]]]
            ELSE item
    IN  [k \in DOMAIN consensus |-> enhance(consensus[k])]

\* A summary of the analyzers that timed out only.
HealthSummaryOfTimeouts(serviceStatusList) ==
    LET failedServices == SelectSeq(serviceStatusList, LAMBDA s : s.status = "timeout")
    IN  [ present           |-> Len(failedServices) > 0,
          degraded_services |-> [k \in DOMAIN failedServices |-> failedServices[k].service],
          failed_count      |-> Len(failedServices),
          total_services    |-> Len(serviceStatusList) ]

\* The healthSummary performAnalysis builds; present = FALSE is null.
HealthSummary(serviceStatusList) ==
    LET failedServices == SelectSeq(serviceStatusList, LAMBDA s : s.status # "success")
    IN  [ present           |-> Len(failedServices) > 0,
          degraded_services |-> [k \in DOMAIN failedServices |-> failedServices[k].service],
          failed_count      |-> Len(failedServices),
          total_services    |-> Len(serviceStatusList) ]

\* createCompactResponse.
createCompactResponse(serviceStatusList, votingResults, captionsData, boundingBoxData, results, healthSummary) ==
    LET hasOfflineServices ==
            healthSummary.present /\ Len(healthSummary.degraded_services) > 0
    IN  [ success |-> ~hasOfflineServices,
          consensus |-> integrateEmojiPredictionsWithBoundingBoxes(
                            votingResults.consensus, boundingBoxData.grouped),
          special |-> votingResults.special,
          captions |-> captionsData.captions,
          results |-> createCompactResults(results, serviceStatusList),
          service_health_summary |-> healthSummary ]

(***************************************************************************)
(* CaptionAggregationService and CLIPCaptionScoringService                 *)
(***************************************************************************)
\* The words stopword.removeStopwords drops (a sample of its English list).
StopWords == {"a", "an", "the", "on", "of", "is"}
removeStopwords(words) == SelectSeq(words, LAMBDA w : w \notin StopWords)

\* clip_similarity: null.
NullSimilarity == [null |-> TRUE, value |-> 0]

\* extractCaptions: the text of the first prediction of blip and of ollama,
\* where there is one, under the keys blip and llama.
extractCaptions(serviceResults) ==
    LET textOf(serviceName) ==
            IF Len(ResultOf(serviceResults, serviceName).predictions) > 0
            THEN ResultOf(serviceResults, serviceName).predictions[1].text
            ELSE <<>>
    IN  SelectSeq(<< [key |-> "blip", service |-> "blip", text |-> textOf("blip")],
                     [key |-> "llama", service |-> "ollama", text |-> textOf("ollama")] >>,
                  LAMBDA c : c.text # <<>>)

\* processScoringResponse: the similarity_score of the payload, or a throw.
\* A payload is [status, hasScore, similarity_score].
processScoringResponse(data) ==
    IF data.status = "not_an_object" THEN [threw |-> TRUE, similarity_score |-> 0]
    ELSE IF data.status = "error" THEN [threw |-> TRUE, similarity_score |-> 0]
    ELSE IF data.status # "success" THEN [threw |-> TRUE, similarity_score |-> 0]
    ELSE IF ~data.hasScore THEN [threw |-> TRUE, similarity_score |-> 0]
    ELSE [threw |-> FALSE, similarity_score |-> data.similarity_score]

\* CLIPCaptionScoringService.scoreCaption: how the scoring call settles for
\* an outcome of axios.get.
clipScoreCaption(caption, outcome) ==
    IF caption = <<>>
    THEN [state |-> "rejected", similarity_score |-> 0]
    ELSE IF outcome.responded /\ ~processScoringResponse(outcome.data).threw
    THEN [state |-> "fulfilled",
          similarity_score |-> processScoringResponse(outcome.data).similarity_score]
    ELSE [state |-> "rejected", similarity_score |-> 0]

\* A scoring that lets the rejection of the scoring call through: the
\* caption gets no score record.
scoreCaptionUncaught(caption, outcome) ==
    LET clipResult == clipScoreCaption(caption, outcome)
    IN  [ threw |-> clipResult.state = "rejected",
          original |-> caption,
          words |-> Len(removeStopwords(caption)),
          clip_similarity |-> [null |-> FALSE, value |-> clipResult.similarity_score] ]

\* CaptionAggregationService.scoreCaption: the meaningful word count and the
\* CLIP similarity, null when the scoring call rejects.
scoreCaption(caption, outcome) ==
    LET clipResult == clipScoreCaption(caption, outcome)
    IN  [ threw |-> FALSE,
          original |-> caption,
          words |-> Len(removeStopwords(caption)),
          clip_similarity |-> IF clipResult.state = "fulfilled"
                              THEN [null |-> FALSE, value |-> clipResult.similarity_score]
                              ELSE NullSimilarity ]

\* The word-emoji pairs of an analyzer's predictions.
CaptionMappings(serviceData) ==
    FlattenSeq([k \in DOMAIN serviceData.predictions |->
        IF serviceData.predictions[k].hasMappings
        THEN LET ms == SelectSeq(serviceData.predictions[k].emoji_mappings,
                                 LAMBDA m : m.word # "" /\ m.emoji # "")
             IN  [j \in DOMAIN ms |-> [emoji |-> ms[j].emoji, word |-> ms[j].word]]
        ELSE <<>>])

\* aggregateCaptions: extractCaptions, scoreCaptions, buildCaptionsResponse.
\* outcomes[k] is what the scoring call of the k-th caption meets; threw
\* is a rejection that nothing caught.
aggregateCaptions(serviceResults, outcomes) ==
    LET rawCaptions == extractCaptions(serviceResults)
        captionScores == [k \in DOMAIN rawCaptions |->
                             scoreCaption(rawCaptions[k].text, outcomes[k])]
    IN  [ threw |-> \E k \in DOMAIN captionScores : captionScores[k].threw,
          captions |->
             [k \in DOMAIN rawCaptions |->
                [ key |-> rawCaptions[k].key,
                  original |-> captionScores[k].original,
                  words |-> captionScores[k].words,
                  clip_similarity |-> captionScores[k].clip_similarity,
                  emoji_mappings |->
                     CaptionMappings(ResultOf(serviceResults, rawCaptions[k].service)) ]],
          scoring |-> [k \in DOMAIN rawCaptions |->
                          clipScoreCaption(rawCaptions[k].text, outcomes[k])] ]

(***************************************************************************)
(* V3BaseMLService: the analyzer client                                    *)
(***************************************************************************)
ZeroBox == [x |-> 0, y |-> 0, width |-> 0, height |-> 0]

\* A prediction with every optional field absent.  A text is the sequence
\* of its words (what text.split(' ') gives); <<>> is no text.
BasePrediction ==
    [ type |-> "object_detection", label |-> "", emoji |-> "", confidence |-> 0,
      hasBbox |-> FALSE, bbox |-> ZeroBox,
      hasMappings |-> FALSE, emoji_mappings |-> <<>>,
      shiny |-> FALSE, has_text |-> FALSE,
      text |-> <<>> ]

\* error.message of the axios failure with the given error.code.
AxiosMessage(code) ==
    CASE code = "ECONNREFUSED" -> <<"connect", "ECONNREFUSED">>
      [] code = "ENOTFOUND"    -> <<"getaddrinfo", "ENOTFOUND">>
      [] code = "ECONNRESET"   -> <<"socket", "hang", "up">>
      [] code = "ETIMEDOUT"    -> <<"connect", "ETIMEDOUT">>
      [] code = "ECONNABORTED" -> <<"timeout", "of", "30000ms", "exceeded">>
      [] OTHER                 -> <<"Request", "failed", "with", "status", "code", "500">>

\* processV3Response: the predictions of a success payload, or the message
\* of the Error it throws.  A payload is [status, predictions, error].
processV3Response(data) ==
    IF data.status = "not_an_object"
    THEN [threw |-> TRUE, message |-> <<"Invalid", "response:", "not", "a", "JSON", "object">>,
          predictions |-> <<>>]
    ELSE IF data.status = "error"
    THEN [threw |-> TRUE, message |-> <<"Service", "error:">> \o data.error,
          predictions |-> <<>>]
    ELSE IF data.status # "success"
    THEN [threw |-> TRUE, message |-> <<"Invalid", "response", "status:", data.status>>,
          predictions |-> <<>>]
    ELSE [threw |-> FALSE, message |-> <<>>, predictions |-> data.predictions]

\* analyze: how the call settles for an outcome of axios.get.  An outcome is
\* [responded, data, code]: a response body, or a failure with error.code.
\* An Error thrown by processV3Response is caught by the same catch block.
analyze(serviceName, outcome) ==
    LET processed == processV3Response(outcome.data)
        code == IF outcome.responded THEN "" ELSE outcome.code
        inner == IF outcome.responded THEN processed.message ELSE AxiosMessage(outcome.code)
    IN  IF outcome.responded /\ ~processed.threw
        THEN [state |-> "fulfilled", predictions |-> processed.predictions, message |-> <<>>]
        ELSE [state |-> "rejected", predictions |-> <<>>,
              message |->
                 IF code \in {"ECONNREFUSED", "ENOTFOUND"}
                 THEN <<serviceName, "service", "offline:">> \o inner
                 ELSE IF code \in {"ECONNRESET", "ETIMEDOUT"}
                 THEN <<serviceName, "service", "timeout:">> \o inner
                 ELSE <<serviceName, "service", "failed:">> \o inner]

\* A classification by the error code ETIMEDOUT instead of the word.
IncludesTimedOutCode(message) ==
    \E k \in DOMAIN message : message[k] = "ETIMEDOUT"

\* message.includes('timeout'): some word of the message contains it.
IncludesTimeout(message) ==
    \E k \in DOMAIN message : message[k] \in {"timeout", "timeout:"}

(***************************************************************************)
(* Bounds and inputs of the model                                          *)
(***************************************************************************)
\* The analyzers of the fan-out specification: the first NumAnalyzers of
\* ModelRoster (a sub-roster of services/index.js, in its order).
NumAnalyzers == 3
\* The analyzer timeout (30 s) in clock ticks.
TimeoutTicks == 2
\* The most detections (predictions with a bbox) of one image in the
\* pipeline specification.
MaxDetections == 4

\* The configured analyzers, in the key order of the services object.
ConfigOrder ==
  <<"blip", "clip", "yolo", "colors", "detectron2", "face", "nsfw", "ocr", "inception",
    "rtdetr", "metadata", "ollama", "yolo_365", "yolo_oi7">>

ModelRoster == <<"blip", "yolo", "detectron2", "nsfw", "ocr">>
Roster == SubSeq(ModelRoster, 1, NumAnalyzers)

\* Boxes: A-B and B-C overlap by 7/13, A-C by 4/16 (a chain); D lies in A
\* with IoU exactly 3/10 and does not touch B or C.
BoxA == [x |-> 0, y |-> 0, width |-> 10, height |-> 1]
BoxB == [x |-> 3, y |-> 0, width |-> 10, height |-> 1]
BoxC == [x |-> 6, y |-> 0, width |-> 10, height |-> 1]
BoxD == [x |-> 0, y |-> 0, width |-> 3, height |-> 1]
Boxes == {BoxA, BoxB, BoxC, BoxD}

MeasuredDimensions == [measured |-> TRUE, width |-> 20, height |-> 20]

DetectionPrediction(emoji, box, confidence) ==
    [BasePrediction EXCEPT !.label = emoji, !.emoji = emoji, !.confidence = confidence,
                           !.hasBbox = TRUE, !.bbox = box]

CaptionPrediction(mappings) ==
    [BasePrediction EXCEPT !.type = "caption", !.confidence = 100,
                           !.hasMappings = TRUE, !.emoji_mappings = mappings]

\* A caption prediction with its text.
CaptionWithText(text, mappings) == [CaptionPrediction(mappings) EXCEPT !.text = text]

DirectPrediction(type, emoji, confidence) ==
    [BasePrediction EXCEPT !.type = type, !.label = emoji, !.emoji = emoji,
                           !.confidence = confidence]

Mapping(word, emoji) == [word |-> word, emoji |-> emoji, shiny |-> FALSE]

\* What axios.get can do for one call.
Responds(data) == [responded |-> TRUE, data |-> data, code |-> ""]
Fails(code) ==
    [responded |-> FALSE, code |-> code,
     data |-> [status |-> "not_an_object", predictions |-> <<>>, error |-> <<>>]]
SuccessPayload(predictions) ==
    [status |-> "success", predictions |-> predictions, error |-> <<>>]
ErrorPayload(words) == [status |-> "error", predictions |-> <<>>, error |-> words]

\* What the scoring call of one caption can meet: a score, a success
\* payload without a score, an error payload, a refused connection.
ScoringPayload(status, hasScore, score) ==
    [status |-> status, hasScore |-> hasScore, similarity_score |-> score]
ScoringOutcomes ==
    { Responds(ScoringPayload("success", TRUE, 27)),
      Responds(ScoringPayload("success", FALSE, 0)),
      Responds(ScoringPayload("error", FALSE, 0)),
      Fails("ECONNREFUSED") }

\* The success payloads of the fan-out specification.
FanoutPredictions(serviceName) ==
    CASE serviceName = "blip" ->
            { <<CaptionWithText(<<"a", "cat">>, <<Mapping("cat", "cat")>>)>> }
      [] serviceName = "yolo" ->
            { <<DetectionPrediction("cat", BoxA, 90)>>,
              <<DetectionPrediction("chair", BoxA, 50)>> }
      [] serviceName = "detectron2" ->
            { <<DetectionPrediction("cat", BoxB, 85)>> }
      [] serviceName = "nsfw" ->
            { <<DirectPrediction("content_moderation", "cat", 90)>> }
      [] OTHER ->
            { <<DirectPrediction("color_analysis", "cat", 90)>> }

\* The ways a call of the fan-out specification settles before its timeout.
FanoutOutcomes(serviceName) ==
    { Responds(SuccessPayload(p)) : p \in FanoutPredictions(serviceName) }
      \cup { Responds(ErrorPayload(<<"model", "crashed">>)), Fails("ECONNREFUSED") }

(***************************************************************************)
(* State                                                                   *)
(***************************************************************************)
VARIABLES
    phase,             \* position of performAnalysis for the request
    mlServices,        \* the configured analyzers (ids, in key order)
    imageDimensions,   \* the measured dimensions, or NullDimensions
    calls,             \* the analyze() promise of each analyzer, by position
    completion,        \* the settled calls in settle order: position and clock tick
    clock,             \* ticks since the calls were started
    results,           \* the result map, as its entries in key order
    serviceStatusList, \* the service status list
    boundingBoxData,   \* what processBoundingBoxes returned
    votingResults,     \* what processVotes returned
    captionsData,      \* what aggregateCaptions returned, and how each scoring call settled
    response,          \* what createCompactResponse returned
    retryCall,         \* one call of the retrying (V2) client: its attempts so far
    concurrent,        \* two requests in flight: their positions, frames and deliveries
    handler            \* the /analyze route handlers: the request in hand and the files on disk

serverVars == <<phase, mlServices, imageDimensions, calls, completion, clock, results,
                serviceStatusList, boundingBoxData, votingResults, captionsData, response>>
sideVars == <<retryCall, concurrent, handler>>
vars == <<phase, mlServices, imageDimensions, calls, completion, clock, results,
          serviceStatusList, boundingBoxData, votingResults, captionsData, response,
          retryCall, concurrent, handler>>

PendingCall == [state |-> "pending", predictions |-> <<>>, message |-> <<>>]
NoBoundingBoxData == [threw |-> FALSE, all_detections |-> <<>>, grouped |-> <<>>]
NoVotingResults ==
    [consensus |-> <<>>, special |-> [text |-> FALSE, face |-> FALSE, nsfw |-> FALSE],
     analysis |-> <<>>]
NoCaptionsData == [threw |-> FALSE, captions |-> <<>>, scoring |-> <<>>]
\* A file given by direct path exists before any request; no upload yet.
DirectFile == [id |-> 0, origin |-> "direct"]
IdleHandler ==
    [ pc |-> "idle", kind |-> "none", filePath |-> 0, needsCleanup |-> FALSE,
      files |-> {DirectFile}, served |-> 0, status |-> 0 ]
IdleRetryCall == [state |-> "idle", retryCount |-> 0, attempts |-> <<>>]
NoResponse ==
    [success |-> FALSE, consensus |-> <<>>, special |-> NoVotingResults.special,
     captions |-> <<>>, results |-> <<>>,
     service_health_summary |->
        [present |-> FALSE, degraded_services |-> <<>>, failed_count |-> 0,
         total_services |-> 0]]

\* The locals of one call of performAnalysis.
EmptyFrame ==
    [ calls |-> <<>>, results |-> <<>>, serviceStatusList |-> <<>>,
      boundingBoxData |-> NoBoundingBoxData, votingResults |-> NoVotingResults,
      scoring |-> <<>> ]
\* The requests in flight together.
NumRequests == 2
Requests == 1..NumRequests
IdleConcurrent ==
    [ pc |-> [r \in Requests |-> "idle"],
      frames |-> [f \in Requests |-> EmptyFrame],
      met |-> [r \in Requests |-> [calls |-> <<>>, scoring |-> <<>>]],
      delivered |-> [r \in Requests |-> NoResponse],
      overlapped |-> FALSE ]

Init ==
    /\ phase = "idle"
    /\ mlServices = Roster
    /\ imageDimensions = NullDimensions
    /\ calls = <<>>
    /\ completion = <<>>
    /\ clock = 0
    /\ results = <<>>
    /\ serviceStatusList = <<>>
    /\ boundingBoxData = NoBoundingBoxData
    /\ votingResults = NoVotingResults
    /\ captionsData = NoCaptionsData
    /\ response = NoResponse
    /\ retryCall = IdleRetryCall
    /\ concurrent = IdleConcurrent
    /\ handler = IdleHandler

(***************************************************************************)
(* performAnalysis                                                         *)
(***************************************************************************)
\* The request arrives: the dimensions are measured (or the measurement
\* throws and they stay null) and every analyzer call is started.
StartAnalysis ==
    /\ phase = "idle"
    /\ \E dims \in {MeasuredDimensions, NullDimensions} : imageDimensions' = dims
    /\ calls' = [i \in DOMAIN mlServices |-> PendingCall]
    /\ phase' = "fanout"
    /\ UNCHANGED sideVars
    /\ UNCHANGED captionsData
    /\ UNCHANGED <<mlServices, completion, clock, results, serviceStatusList,
                   boundingBoxData, votingResults, response>>

\* axios.get of call i settles before the timeout, and analyze() with it.
CallSettles(i) ==
    /\ phase = "fanout"
    /\ calls[i].state = "pending"
    /\ clock < TimeoutTicks
    /\ \E outcome \in FanoutOutcomes(mlServices[i]) :
          calls' = [calls EXCEPT ![i] = analyze(mlServices[i], outcome)]
    /\ completion' = Append(completion, [position |-> i, tick |-> clock])
    /\ UNCHANGED sideVars
    /\ UNCHANGED captionsData
    /\ UNCHANGED <<phase, mlServices, imageDimensions, clock, results, serviceStatusList,
                   boundingBoxData, votingResults, response>>

\* Time passes while a call is pending, up to the timeout of the calls.
Tick ==
    /\ phase = "fanout"
    /\ \E i \in DOMAIN calls : calls[i].state = "pending"
    /\ clock < TimeoutTicks
    /\ clock' = clock + 1
    /\ UNCHANGED sideVars
    /\ UNCHANGED captionsData
    /\ UNCHANGED <<phase, mlServices, imageDimensions, calls, completion, results,
                   serviceStatusList, boundingBoxData, votingResults, response>>

\* The timeout of call i expires: axios aborts the request (ECONNABORTED).
CallTimesOut(i) ==
    /\ phase = "fanout"
    /\ calls[i].state = "pending"
    /\ clock = TimeoutTicks
    /\ calls' = [calls EXCEPT ![i] = analyze(mlServices[i], Fails("ECONNABORTED"))]
    /\ completion' = Append(completion, [position |-> i, tick |-> clock])
    /\ UNCHANGED sideVars
    /\ UNCHANGED captionsData
    /\ UNCHANGED <<phase, mlServices, imageDimensions, clock, results, serviceStatusList,
                   boundingBoxData, votingResults, response>>

\* The settled promises in the order they settled in (what pushing each
\* result from its own then-callback would collect).
AllSettledInSettleOrder(settledCalls, settleOrder) ==
    [k \in DOMAIN settleOrder |->
        [position |-> settleOrder[k].position, call |-> settledCalls[settleOrder[k].position]]]

\* Promise.allSettled(servicePromises): the settled promises by POSITION of
\* the promise in the input array, whatever the order they settled in.
AllSettledArray(settledCalls, settleOrder) ==
    [i \in DOMAIN settledCalls |-> [position |-> i, call |-> settledCalls[i]]]

\* The entry of the result map and of the status list for a settled call.
ResultEntry(serviceName, call) ==
    IF call.state = "fulfilled"
    THEN [name |-> serviceName, success |-> TRUE, error |-> <<>>,
          predictions |-> call.predictions]
    ELSE [name |-> serviceName, success |-> FALSE, error |-> call.message,
          predictions |-> <<>>]

StatusEntry(serviceName, call) ==
    IF call.state = "fulfilled"
    THEN [service |-> serviceName, status |-> "success", predictions |-> Len(call.predictions)]
    ELSE [service |-> serviceName,
          status |-> IF IncludesTimeout(call.message) THEN "timeout" ELSE "error",
          predictions |-> 0]

\* Promise.all in place of Promise.allSettled: the first rejection is thrown
\* out of performAnalysis.
CollectResultsFailFast ==
    /\ phase = "fanout"
    /\ \A i \in DOMAIN calls : calls[i].state # "pending"
    /\ IF \E i \in DOMAIN calls : calls[i].state = "rejected"
       THEN /\ phase' = "failed"
            /\ UNCHANGED sideVars
            /\ UNCHANGED captionsData
            /\ UNCHANGED <<results, serviceStatusList>>
       ELSE /\ results' = [k \in DOMAIN calls |-> ResultEntry(mlServices[k], calls[k])]
            /\ serviceStatusList' = [k \in DOMAIN calls |-> StatusEntry(mlServices[k], calls[k])]
            /\ phase' = "collected"
    /\ UNCHANGED sideVars
    /\ UNCHANGED captionsData
    /\ UNCHANGED <<mlServices, imageDimensions, calls, completion, clock,
                   boundingBoxData, votingResults, response>>

\* Promise.allSettled resolves once no call is pending; the forEach over
\* its array fills the result map and the status list.
CollectResults ==
    /\ phase = "fanout"
    /\ \A i \in DOMAIN calls : calls[i].state # "pending"
    /\ LET serviceResults == AllSettledArray(calls, completion)
       IN  /\ results' = [k \in DOMAIN serviceResults |->
                            ResultEntry(mlServices[serviceResults[k].position],
                                        serviceResults[k].call)]
           /\ serviceStatusList' = [k \in DOMAIN serviceResults |->
                            StatusEntry(mlServices[serviceResults[k].position],
                                        serviceResults[k].call)]
    /\ phase' = "collected"
    /\ UNCHANGED sideVars
    /\ UNCHANGED captionsData
    /\ UNCHANGED <<mlServices, imageDimensions, calls, completion, clock,
                   boundingBoxData, votingResults, response>>

\* await boundingBoxService.processBoundingBoxes(results, imageDimensions):
\* its rejection is thrown out of performAnalysis (the route answers 500).
ProcessBoundingBoxes ==
    /\ phase = "collected"
    /\ boundingBoxData' = processBoundingBoxes(results, imageDimensions)
    /\ phase' = IF boundingBoxData'.threw THEN "failed" ELSE "clustered"
    /\ UNCHANGED sideVars
    /\ UNCHANGED captionsData
    /\ UNCHANGED <<mlServices, imageDimensions, calls, completion, clock, results,
                   serviceStatusList, votingResults, response>>

ProcessVotes ==
    /\ phase = "clustered"
    /\ votingResults' = processVotes(results, boundingBoxData)
    /\ phase' = "voted"
    /\ UNCHANGED sideVars
    /\ UNCHANGED captionsData
    /\ UNCHANGED <<mlServices, imageDimensions, calls, completion, clock, results,
                   serviceStatusList, boundingBoxData, response>>

\* aggregateCaptions, awaited: the scoring calls of the request's captions
\* settle one after the other, each in one of the ways it can.
AggregateCaptions ==
    /\ phase = "voted"
    /\ \E outcomes \in [DOMAIN extractCaptions(results) -> ScoringOutcomes] :
          captionsData' = aggregateCaptions(results, outcomes)
    /\ phase' = IF captionsData'.threw THEN "failed" ELSE "captioned"
    /\ UNCHANGED sideVars
    /\ UNCHANGED <<mlServices, imageDimensions, calls, completion, clock, results,
                   serviceStatusList, boundingBoxData, votingResults, response>>

CreateResponse ==
    /\ phase = "captioned"
    /\ response' = createCompactResponse(serviceStatusList, votingResults, captionsData,
                                         boundingBoxData, results,
                                         HealthSummary(serviceStatusList))
    /\ phase' = "responded"
    /\ UNCHANGED sideVars
    /\ UNCHANGED captionsData
    /\ UNCHANGED <<mlServices, imageDimensions, calls, completion, clock, results,
                   serviceStatusList, boundingBoxData, votingResults>>

Next ==
    \/ StartAnalysis
    \/ \E i \in DOMAIN calls : CallSettles(i)
    \/ Tick
    \/ \E i \in DOMAIN calls : CallTimesOut(i)
    \/ CollectResults
    \/ ProcessBoundingBoxes
    \/ ProcessVotes
    \/ AggregateCaptions
    \/ CreateResponse

Spec == Init /\ [][Next]_vars

(***************************************************************************)
(* The pipeline after the fan-out, on wider analyzer outputs: the request  *)
(* is taken at the moment its last call has settled.                       *)
(***************************************************************************)
BoundedSeqs(S, n) == UNION { [1..k -> S] : k \in 0..n }

\* Detections of one emoji: two below the singleton threshold, one at it and
\* one above it.
ClusterPredictions ==
    { DetectionPrediction("chair", BoxA, 50), DetectionPrediction("chair", BoxB, 60),
      DetectionPrediction("chair", BoxC, 85), DetectionPrediction("chair", BoxD, 90) }

\* Two detectors with at most MaxDetections detections between them.
ClusterInputs ==
    { [roster |-> <<"yolo", "detectron2">>,
       outcomes |-> <<Responds(SuccessPayload(SubSeq(sd[1], 1, sd[2]))),
                      Responds(SuccessPayload(SubSeq(sd[1], sd[2] + 1, Len(sd[1]))))>>] :
        sd \in { x \in BoundedSeqs(ClusterPredictions, MaxDetections) \X (0..MaxDetections) :
                    x[2] <= Len(x[1]) } }

\* A caption analyzer, a detector, the colour analyzer and a specialized
\* analyzer naming the same emoji in several ways.
VoteInputs ==
    { [roster |-> <<"blip", "yolo", "colors", "nsfw">>,
       outcomes |-> <<b, Responds(SuccessPayload(y)), Responds(SuccessPayload(c)), n>>] :
        b \in { Fails("ECONNREFUSED"),
                Responds(SuccessPayload(<<CaptionPrediction(<<Mapping("chair", "chair")>>)>>)),
                Responds(SuccessPayload(<<CaptionPrediction(
                    <<Mapping("chair", "chair"), Mapping("seat", "chair")>>)>>)),
                Responds(SuccessPayload(<<CaptionPrediction(
                    <<Mapping("cat", "cat"), Mapping("chair", "chair")>>)>>)) },
        y \in { <<>>,
                <<DetectionPrediction("chair", BoxA, 85)>>,
                <<DetectionPrediction("chair", BoxA, 85), DetectionPrediction("chair", BoxC, 85)>>,
                <<DetectionPrediction("cat", BoxA, 85), DetectionPrediction("chair", BoxA, 50)>> },
        c \in { <<>>,
                <<DirectPrediction("color_analysis", "chair", 90)>>,
                <<DirectPrediction("color_analysis", "black", 100)>> },
        n \in { Responds(ErrorPayload(<<"model", "crashed">>)),
                Responds(SuccessPayload(<<DirectPrediction("content_moderation", "chair", 90)>>)),
                Responds(SuccessPayload(<<DirectPrediction("content_moderation", "cat", 90),
                                          DirectPrediction("content_moderation", "cat", 60)>>)) } }

\* The face analyzer's prediction and the OCR analyzer's prediction.
FacePrediction ==
    [DetectionPrediction(FaceLiteral, BoxB, 90) EXCEPT !.type = "face_detection"]
TextPrediction ==
    [DirectPrediction("text_extraction", "text", 90) EXCEPT !.has_text = TRUE]

\* The emoji the curation rules name (person, face, NSFW), voted for by a
\* caption analyzer, a detector and the specialized analyzers.
CurationInputs ==
    { [roster |-> <<"blip", "yolo", "face", "nsfw", "ocr">>,
       outcomes |-> <<b, Responds(SuccessPayload(y)), f, n, o>>] :
        b \in { Fails("ECONNREFUSED") }
              \cup { Responds(SuccessPayload(<<CaptionPrediction(
                        [k \in DOMAIN es |-> Mapping(es[k], es[k])])>>)) :
                     es \in { <<PersonLiteral>>, <<FaceLiteral, PersonLiteral>>,
                              <<PersonLiteral, FaceLiteral>>, <<NsfwLiteral>>,
                              <<NsfwLiteral, PersonLiteral>>, <<NsfwLiteral, "cat">>,
                              <<"cat", NsfwLiteral>>, <<"text", "cat">> } },
        y \in { <<>>,
                <<DetectionPrediction(PersonLiteral, BoxA, 85)>>,
                <<DetectionPrediction("cat", BoxA, 85)>> },
        f \in { Fails("ECONNRESET"),
                Responds(SuccessPayload(<<>>)),
                Responds(SuccessPayload(<<FacePrediction>>)) },
        n \in { Responds(ErrorPayload(<<"model", "crashed">>)),
                Responds(SuccessPayload(<<>>)),
                Responds(SuccessPayload(<<DirectPrediction("content_moderation", NsfwLiteral, 90)>>)) },
        o \in { Fails("ETIMEDOUT"),
                Responds(SuccessPayload(<<>>)),
                Responds(SuccessPayload(<<TextPrediction>>)) } }

\* Two caption analyzers and two detectors agreeing, or not, on an emoji.
WeightInputs ==
    { [roster |-> <<"blip", "yolo", "detectron2", "ollama">>,
       outcomes |-> <<b, Responds(SuccessPayload(y)), Responds(SuccessPayload(d)), o>>] :
        b \in { Fails("ECONNREFUSED"),
                Responds(SuccessPayload(<<CaptionPrediction(<<Mapping("chair", "chair")>>)>>)),
                Responds(SuccessPayload(<<CaptionPrediction(<<Mapping("cat", "cat")>>)>>)) },
        y \in { <<>>,
                <<DetectionPrediction("chair", BoxA, 50)>>,
                <<DetectionPrediction("chair", BoxA, 85)>> },
        d \in { <<>>,
                <<DetectionPrediction("chair", BoxB, 60)>>,
                <<DetectionPrediction("chair", BoxC, 85)>>,
                <<DetectionPrediction("chair", BoxB, 60), DetectionPrediction("chair", BoxC, 85)>> },
        o \in { Responds(ErrorPayload(<<"model", "crashed">>)),
                Responds(SuccessPayload(<<CaptionPrediction(<<Mapping("chair", "chair")>>)>>)),
                Responds(SuccessPayload(<<CaptionPrediction(
                    <<Mapping("chair", "chair"), Mapping("cat", "cat")>>)>>)) } }

\* The two caption analyzers with and without a caption text.
CaptionInputs ==
    { [roster |-> <<"blip", "ollama", "yolo">>,
       outcomes |-> <<b, o, Responds(SuccessPayload(y))>>] :
        b \in { Fails("ECONNREFUSED"),
                Responds(SuccessPayload(<<CaptionPrediction(<<Mapping("cat", "cat")>>)>>)),
                Responds(SuccessPayload(<<CaptionWithText(<<"a", "cat", "on", "the", "chair">>,
                    <<Mapping("cat", "cat"), Mapping("chair", "chair")>>)>>)) },
        o \in { Responds(ErrorPayload(<<"model", "crashed">>)),
                Responds(SuccessPayload(<<CaptionWithText(<<"the", "cat", "is", "asleep">>,
                    <<Mapping("cat", "cat")>>)>>)) },
        y \in { <<>>, <<DetectionPrediction("cat", BoxA, 85)>> } }

\* An emoji named with and without the shiny flag, by a caption analyzer's
\* mappings and by a classifier's predictions, in either order.
ShinyMapping(word, emoji) == [Mapping(word, emoji) EXCEPT !.shiny = TRUE]
ShinyPrediction(type, emoji, confidence) ==
    [DirectPrediction(type, emoji, confidence) EXCEPT !.shiny = TRUE]
ShinyInputs ==
    { [roster |-> <<"blip", "clip", "inception">>,
       outcomes |-> <<Responds(SuccessPayload(<<CaptionPrediction(b)>>)),
                      Responds(SuccessPayload(c)),
                      Responds(SuccessPayload(<<DirectPrediction("classification", "cat", 70)>>))>>] :
        b \in { <<Mapping("cat", "cat")>>,
                <<ShinyMapping("cat", "cat")>>,
                <<Mapping("cat", "cat"), ShinyMapping("kitten", "cat")>>,
                <<ShinyMapping("cat", "cat"), Mapping("kitten", "cat")>>,
                <<Mapping("chair", "chair")>> },
        c \in { <<>>,
                <<DirectPrediction("classification", "cat", 80)>>,
                <<ShinyPrediction("classification", "cat", 80)>>,
                <<DirectPrediction("classification", "cat", 80),
                  ShinyPrediction("classification", "cat", 60)>>,
                <<ShinyPrediction("classification", "chair", 80)>> } }

PipelineInputs ==
    ClusterInputs \cup VoteInputs \cup CurationInputs \cup WeightInputs \cup CaptionInputs
        \cup ShinyInputs

InitPipeline ==
    /\ phase = "fanout"
    /\ \E in \in PipelineInputs :
          /\ mlServices = in.roster
          /\ calls = [i \in DOMAIN in.roster |-> analyze(in.roster[i], in.outcomes[i])]
          /\ completion = [i \in DOMAIN in.roster |-> [position |-> i, tick |-> 0]]
    /\ imageDimensions = MeasuredDimensions
    /\ clock = 0
    /\ results = <<>>
    /\ serviceStatusList = <<>>
    /\ boundingBoxData = NoBoundingBoxData
    /\ votingResults = NoVotingResults
    /\ captionsData = NoCaptionsData
    /\ response = NoResponse
    /\ retryCall = IdleRetryCall
    /\ concurrent = IdleConcurrent
    /\ handler = IdleHandler

NextPipeline ==
    \/ CollectResults
    \/ ProcessBoundingBoxes
    \/ ProcessVotes
    \/ AggregateCaptions
    \/ CreateResponse

SpecPipeline == InitPipeline /\ [][NextPipeline]_vars

(***************************************************************************)
(* The retrying client (V2BaseMLService): one call and its attempts.       *)
(***************************************************************************)
\* ML_MAX_RETRIES of the sample environment.
ML_MAX_RETRIES == 2

\* What one attempt can meet: a response, an axios failure, or the
\* client's own timer winning the race ("Request timeout").
RequestTimeout ==
    [responded |-> FALSE, code |-> "REQUEST_TIMEOUT",
     data |-> [status |-> "not_an_object", predictions |-> <<>>, error |-> <<>>]]
AttemptOutcomes ==
    { Responds(SuccessPayload(<<>>)),
      Responds(ErrorPayload(<<"model", "crashed">>)),
      Responds([status |-> "partial", predictions |-> <<>>, error |-> <<>>]),
      Fails("ECONNREFUSED"),
      Fails("ECONNABORTED"),
      RequestTimeout }

\* processV2Response: whether it throws for the response's data.
processV2Response(data) ==
    IF data.status = "not_an_object" THEN [threw |-> TRUE]
    ELSE IF data.status = "error" THEN [threw |-> TRUE]
    ELSE IF data.status # "success" THEN [threw |-> TRUE]
    ELSE [threw |-> FALSE]

\* What ended an attempt.
AttemptKind(outcome) ==
    IF ~outcome.responded
    THEN (IF outcome.code \in {"REQUEST_TIMEOUT", "ECONNABORTED"}
          THEN "deadline" ELSE "transport")
    ELSE IF ~processV2Response(outcome.data).threw THEN "success"
    ELSE IF outcome.data.status = "error" THEN "status_error"
    ELSE "invalid_response"

InitRetry ==
    /\ phase = "idle"
    /\ mlServices = Roster
    /\ imageDimensions = NullDimensions
    /\ calls = <<>>
    /\ completion = <<>>
    /\ clock = 0
    /\ results = <<>>
    /\ serviceStatusList = <<>>
    /\ boundingBoxData = NoBoundingBoxData
    /\ votingResults = NoVotingResults
    /\ captionsData = NoCaptionsData
    /\ response = NoResponse
    /\ retryCall = IdleRetryCall
    /\ concurrent = IdleConcurrent
    /\ handler = IdleHandler

\* analyze(imageUrl): processImage(imageUrl, 0).
V2Analyze ==
    /\ retryCall.state = "idle"
    /\ retryCall' = [retryCall EXCEPT !.state = "requesting", !.retryCount = 0]
    /\ UNCHANGED serverVars
    /\ UNCHANGED <<concurrent, handler>>

\* processImage retrying while retryCount <= maxRetries.
ProcessImageAttemptOnceMore ==
    /\ retryCall.state = "requesting"
    /\ \E outcome \in AttemptOutcomes :
          LET threw == ~outcome.responded \/ processV2Response(outcome.data).threw
          IN  retryCall' =
                [retryCall EXCEPT
                    !.attempts = Append(@, AttemptKind(outcome)),
                    !.state = IF ~threw THEN "fulfilled"
                              ELSE IF retryCall.retryCount <= ML_MAX_RETRIES THEN "backoff"
                              ELSE "rejected"]
    /\ UNCHANGED serverVars
    /\ UNCHANGED <<concurrent, handler>>

\* processImage: the attempt ends; the try block returns, or the catch
\* block takes whatever was thrown and retries while retryCount < maxRetries.
ProcessImageAttempt ==
    /\ retryCall.state = "requesting"
    /\ \E outcome \in AttemptOutcomes :
          LET threw == ~outcome.responded \/ processV2Response(outcome.data).threw
          IN  retryCall' =
                [retryCall EXCEPT
                    !.attempts = Append(@, AttemptKind(outcome)),
                    !.state = IF ~threw THEN "fulfilled"
                              ELSE IF retryCall.retryCount < ML_MAX_RETRIES THEN "backoff"
                              ELSE "rejected"]
    /\ UNCHANGED serverVars
    /\ UNCHANGED <<concurrent, handler>>

\* The 1000 ms wait is over: processImage(imageUrl, retryCount + 1).
ProcessImageRetry ==
    /\ retryCall.state = "backoff"
    /\ retryCall' = [retryCall EXCEPT !.state = "requesting", !.retryCount = @ + 1]
    /\ UNCHANGED serverVars
    /\ UNCHANGED <<concurrent, handler>>

NextRetry ==
    \/ V2Analyze
    \/ ProcessImageAttempt
    \/ ProcessImageRetry

SpecRetry == InitRetry /\ [][NextRetry]_vars

\* Every HTTP attempt settles or loses the race against the client's own
\* timer, and the 1000 ms wait before a retry elapses.
SpecRetryFair ==
    /\ SpecRetry
    /\ WF_vars(V2Analyze)
    /\ WF_vars(ProcessImageAttempt)
    /\ WF_vars(ProcessImageRetry)

(***************************************************************************)
(* The /analyze route handlers and the files they leave on disk.           *)
(***************************************************************************)
\* The requests the handlers serve, one after the other.
MaxRequests == 3

InitHandler ==
    /\ phase = "idle"
    /\ mlServices = Roster
    /\ imageDimensions = NullDimensions
    /\ calls = <<>>
    /\ completion = <<>>
    /\ clock = 0
    /\ results = <<>>
    /\ serviceStatusList = <<>>
    /\ boundingBoxData = NoBoundingBoxData
    /\ votingResults = NoVotingResults
    /\ captionsData = NoCaptionsData
    /\ response = NoResponse
    /\ retryCall = IdleRetryCall
    /\ concurrent = IdleConcurrent
    /\ handler = IdleHandler

\* GET /analyze?url=...: downloadExternalImage is awaited.
GetAnalyzeUrl ==
    /\ handler.pc = "idle"
    /\ handler.served < MaxRequests
    /\ handler' = [handler EXCEPT !.pc = "downloading", !.kind = "url",
                                   !.filePath = 0, !.needsCleanup = FALSE, !.status = 0]
    /\ UNCHANGED <<serverVars, retryCall, concurrent>>

\* downloadExternalImage settles: the image is saved under a fresh uuid
\* name, or the request for it fails before any file is created.  The
\* rejection is caught by the handler (500).
DownloadSettles ==
    /\ handler.pc = "downloading"
    /\ \E outcome \in {"saved", "request_failed"} :
          handler' =
              IF outcome = "saved"
              THEN [handler EXCEPT
                      !.pc = "analyzing",
                      !.files = @ \cup {[id |-> handler.served + 1, origin |-> "download"]},
                      !.filePath = handler.served + 1,
                      !.needsCleanup = TRUE]
              ELSE [handler EXCEPT !.pc = "finally", !.status = 500]
    /\ UNCHANGED <<serverVars, retryCall, concurrent>>

\* GET /analyze?file=...: the file is used where it is.
GetAnalyzeFile ==
    /\ handler.pc = "idle"
    /\ handler.served < MaxRequests
    /\ handler' = [handler EXCEPT !.pc = "analyzing", !.kind = "file",
                                   !.filePath = DirectFile.id, !.needsCleanup = FALSE,
                                   !.status = 0]
    /\ UNCHANGED <<serverVars, retryCall, concurrent>>

\* POST /analyze: multer has stored the upload under a fresh uuid name.
PostAnalyze ==
    /\ handler.pc = "idle"
    /\ handler.served < MaxRequests
    /\ handler' = [handler EXCEPT
                      !.pc = "analyzing", !.kind = "upload",
                      !.files = @ \cup {[id |-> handler.served + 1, origin |-> "upload"]},
                      !.filePath = handler.served + 1, !.needsCleanup = FALSE,
                      !.status = 0]
    /\ UNCHANGED <<serverVars, retryCall, concurrent>>

\* performAnalysis returns (res.json) or throws (caught: status 500).
AnalysisSettles ==
    /\ handler.pc = "analyzing"
    /\ \E status \in {200, 500} :
          handler' = [handler EXCEPT !.pc = "finally", !.status = status]
    /\ UNCHANGED <<serverVars, retryCall, concurrent>>

\* The handler ends: the finally block of the GET handler unlinks filePath
\* when needsCleanup is set; the POST handler has no finally block.
HandlerEnds ==
    /\ handler.pc = "finally"
    /\ handler' = [handler EXCEPT
                      !.pc = "idle",
                      !.served = @ + 1,
                      !.files = IF handler.kind # "upload" /\ handler.needsCleanup
                                THEN { f \in @ : f.id # handler.filePath }
                                ELSE @]
    /\ UNCHANGED <<serverVars, retryCall, concurrent>>

NextHandler ==
    \/ GetAnalyzeUrl
    \/ DownloadSettles
    \/ GetAnalyzeFile
    \/ PostAnalyze
    \/ AnalysisSettles
    \/ HandlerEnds

SpecHandler == InitHandler /\ [][NextHandler]_vars

(***************************************************************************)
(* Two requests in flight.  Each call of performAnalysis runs from one     *)
(* await to the next without interruption; between awaits the steps of     *)
(* the two calls interleave.                                               *)
(***************************************************************************)
ConcurrentRoster == <<"blip", "yolo">>
ConcurrentOutcomes(serviceName) ==
    IF serviceName = "blip"
    THEN { Responds(SuccessPayload(<<CaptionWithText(<<"a", "cat">>,
                                                     <<Mapping("cat", "cat")>>)>>)),
           Fails("ECONNREFUSED") }
    ELSE { Responds(SuccessPayload(<<DetectionPrediction("cat", BoxA, 85)>>)),
           Responds(SuccessPayload(<<>>)) }

\* Every call of performAnalysis holds its locals in a frame of its own.
FrameOfShared(r) == 1
FrameOf(r) == r

InProgress(r) == concurrent.pc[r] \notin {"idle", "responded"}

InitConcurrent ==
    /\ phase = "idle"
    /\ mlServices = ConcurrentRoster
    /\ imageDimensions = MeasuredDimensions
    /\ calls = <<>>
    /\ completion = <<>>
    /\ clock = 0
    /\ results = <<>>
    /\ serviceStatusList = <<>>
    /\ boundingBoxData = NoBoundingBoxData
    /\ votingResults = NoVotingResults
    /\ captionsData = NoCaptionsData
    /\ response = NoResponse
    /\ retryCall = IdleRetryCall
    /\ concurrent = IdleConcurrent
    /\ handler = IdleHandler

\* performAnalysis is called: the analyzer calls are started.
RequestStarts(r) ==
    /\ concurrent.pc[r] = "idle"
    /\ concurrent' =
          [concurrent EXCEPT
              !.pc[r] = "fanout",
              !.frames[FrameOf(r)] =
                  [EmptyFrame EXCEPT !.calls = [i \in DOMAIN mlServices |-> PendingCall]],
              !.met[r].calls = [i \in DOMAIN mlServices |-> Fails("NOT_CALLED")],
              !.overlapped = @ \/ \E other \in Requests \ {r} : InProgress(other)]
    /\ UNCHANGED <<serverVars, retryCall, handler>>

\* One analyzer call of the request settles.
RequestCallSettles(r, i) ==
    /\ concurrent.pc[r] = "fanout"
    /\ i \in DOMAIN concurrent.frames[FrameOf(r)].calls
    /\ concurrent.frames[FrameOf(r)].calls[i].state = "pending"
    /\ \E outcome \in ConcurrentOutcomes(mlServices[i]) :
          concurrent' =
              [concurrent EXCEPT
                  !.frames[FrameOf(r)].calls[i] = analyze(mlServices[i], outcome),
                  !.met[r].calls[i] = outcome]
    /\ UNCHANGED <<serverVars, retryCall, handler>>

\* Promise.allSettled resolves: the result map and the status list are
\* built and the bounding boxes processed.
RequestCollects(r) ==
    LET frame == concurrent.frames[FrameOf(r)]
        newResults == [i \in DOMAIN frame.calls |-> ResultEntry(mlServices[i], frame.calls[i])]
    IN  /\ concurrent.pc[r] = "fanout"
        /\ frame.calls # <<>>
        /\ \A i \in DOMAIN frame.calls : frame.calls[i].state # "pending"
        /\ concurrent' =
              [concurrent EXCEPT
                  !.pc[r] = "clustered",
                  !.frames[FrameOf(r)].results = newResults,
                  !.frames[FrameOf(r)].serviceStatusList =
                      [i \in DOMAIN frame.calls |-> StatusEntry(mlServices[i], frame.calls[i])],
                  !.frames[FrameOf(r)].boundingBoxData =
                      processBoundingBoxes(newResults, imageDimensions)]
        /\ UNCHANGED <<serverVars, retryCall, handler>>

\* processBoundingBoxes has resolved: the votes are processed and
\* aggregateCaptions starts the first scoring call.
RequestVotes(r) ==
    LET frame == concurrent.frames[FrameOf(r)]
    IN  /\ concurrent.pc[r] = "clustered"
        /\ concurrent' =
              [concurrent EXCEPT
                  !.pc[r] = "scoring",
                  !.frames[FrameOf(r)].votingResults =
                      processVotes(frame.results, frame.boundingBoxData),
                  !.frames[FrameOf(r)].scoring = <<>>]
        /\ UNCHANGED <<serverVars, retryCall, handler>>

\* The scoring call of the request's next caption settles.
RequestScoringSettles(r) ==
    LET frame == concurrent.frames[FrameOf(r)]
    IN  /\ concurrent.pc[r] = "scoring"
        /\ Len(frame.scoring) < Len(extractCaptions(frame.results))
        /\ \E outcome \in ScoringOutcomes :
              concurrent' =
                  [concurrent EXCEPT
                      !.frames[FrameOf(r)].scoring = Append(@, outcome),
                      !.met[r].scoring = Append(@, outcome)]
        /\ UNCHANGED <<serverVars, retryCall, handler>>

\* aggregateCaptions has resolved: the response is built and sent.
RequestResponds(r) ==
    LET frame == concurrent.frames[FrameOf(r)]
    IN  /\ concurrent.pc[r] = "scoring"
        /\ Len(frame.scoring) = Len(extractCaptions(frame.results))
        /\ concurrent' =
              [concurrent EXCEPT
                  !.pc[r] = "responded",
                  !.delivered[r] =
                      createCompactResponse(
                          frame.serviceStatusList, frame.votingResults,
                          aggregateCaptions(frame.results, frame.scoring),
                          frame.boundingBoxData, frame.results,
                          HealthSummary(frame.serviceStatusList))]
        /\ UNCHANGED <<serverVars, retryCall, handler>>

NextConcurrent ==
    \/ \E r \in Requests : RequestStarts(r)
    \/ \E r \in Requests : \E i \in DOMAIN mlServices : RequestCallSettles(r, i)
    \/ \E r \in Requests : RequestCollects(r)
    \/ \E r \in Requests : RequestVotes(r)
    \/ \E r \in Requests : RequestScoringSettles(r)
    \/ \E r \in Requests : RequestResponds(r)

SpecConcurrent == InitConcurrent /\ [][NextConcurrent]_vars

(***************************************************************************)
(* Properties                                                              *)
(***************************************************************************)
Collected == phase \in {"collected", "clustered", "voted", "captioned", "responded", "failed"}
Clustered == phase \in {"clustered", "voted", "captioned", "responded"}
Voted     == phase \in {"voted", "captioned", "responded"}
Captioned == phase \in {"captioned", "responded"}

\* The positions of the calls that were still unfinished at the timeout.
TimedOutCalls == { completion[k].position : k \in { n \in DOMAIN completion :
                                                     completion[n].tick = TimeoutTicks } }

\* The entries of the result map for an analyzer.
EntriesOf(serviceName) == { k \in DOMAIN results : results[k].name = serviceName }

\* C1: partial failure never fails the request.  Whatever calls reject, the
\* results are collected once every call has settled, the map holds one entry per
\* analyzer, a rejected analyzer's entry has success = false and no
\* prediction, a fulfilled analyzer's entry holds exactly the predictions it
\* returned, and the request fails only on unmeasured dimensions met by a
\* returned bbox, never on a rejected call.
PartialFailureKeepsRequest ==
    /\ phase = "fanout" /\ (\A i \in DOMAIN calls : calls[i].state # "pending") =>
         ENABLED CollectResults
    /\ Collected /\ phase # "failed" =>
         \A i \in DOMAIN mlServices :
            /\ Cardinality(EntriesOf(mlServices[i])) = 1
            /\ \A k \in EntriesOf(mlServices[i]) :
                 IF calls[i].state = "rejected"
                 THEN ~results[k].success /\ results[k].predictions = <<>>
                 ELSE results[k].success /\ results[k].predictions = calls[i].predictions
    /\ Collected => Len(results) = Len(mlServices)
    /\ phase = "failed" =>
         /\ ~imageDimensions.measured
         /\ \E i \in DOMAIN calls :
               /\ calls[i].state = "fulfilled"
               /\ \E k \in DOMAIN calls[i].predictions : calls[i].predictions[k].hasBbox

\* A response built while one call was rejected and another call's
\* predictions are in the map.
PartialFailureAnswered ==
    /\ phase = "responded"
    /\ \E i \in DOMAIN calls : calls[i].state = "rejected"
    /\ \E k \in DOMAIN results : results[k].success /\ results[k].predictions # <<>>
    /\ response.consensus # <<>>

\* The analyzers whose status is not success.
NonSuccess == { k \in DOMAIN serviceStatusList : serviceStatusList[k].status # "success" }

\* C2: the response's success flag is false exactly when some analyzer's
\* status is not success; exactly then it carries service_health_summary,
\* with failed_count the number of those analyzers, degraded_services
\* exactly their names and total_services the number of analyzers called;
\* the consensus is that of the succeeded analyzers' entries alone.
HealthSummaryMatchesStatuses ==
    phase = "responded" =>
        LET summary == response.service_health_summary
        IN  /\ response.success = (NonSuccess = {})
            /\ summary.present = (NonSuccess # {})
            /\ summary.present =>
                 /\ summary.failed_count = Cardinality(NonSuccess)
                 /\ Len(summary.degraded_services) = Cardinality(NonSuccess)
                 /\ Range(summary.degraded_services)
                      = { serviceStatusList[k].service : k \in NonSuccess }
                 /\ summary.total_services = Len(mlServices)
            /\ votingResults.consensus
                 = processVotes(SelectSeq(results, LAMBDA r : r.success),
                                boundingBoxData).consensus
            /\ \A k \in DOMAIN response.consensus :
                 \A s \in Range(response.consensus[k].services) :
                    \E r \in DOMAIN results : results[r].name = s /\ results[r].success

\* A degraded response that still carries a consensus.
DegradedWithConsensus ==
    /\ phase = "responded"
    /\ ~response.success
    /\ response.service_health_summary.failed_count = 1
    /\ \E k \in NonSuccess : serviceStatusList[k].status = "error"
    /\ response.consensus # <<>>

\* What the pipeline makes of the calls, read in roster order.
RosterResults == [i \in DOMAIN mlServices |-> ResultEntry(mlServices[i], calls[i])]
RosterStatus  == [i \in DOMAIN mlServices |-> StatusEntry(mlServices[i], calls[i])]

\* C3: the emitted output does not depend on the order the calls settled
\* in: the result map, the status list (in order), the instances and the
\* consensus are those of the calls read in roster order.
CompletionOrderIrrelevant ==
    /\ Collected /\ phase # "failed" =>
         /\ results = RosterResults
         /\ serviceStatusList = RosterStatus
    /\ Clustered =>
         boundingBoxData = processBoundingBoxes(RosterResults, imageDimensions)
    /\ Voted =>
         votingResults.consensus
            = processVotes(RosterResults,
                           processBoundingBoxes(RosterResults, imageDimensions)).consensus
    /\ phase = "responded" =>
         response = createCompactResponse(
                       RosterStatus, votingResults, captionsData, boundingBoxData,
                       RosterResults, HealthSummary(RosterStatus))

\* A response with instances and a consensus whose calls settled in the
\* reverse of the roster order.
SettledOutOfOrder ==
    /\ phase = "responded"
    /\ \A k \in DOMAIN completion :
          completion[k].position = Len(completion) + 1 - k
    /\ response.consensus # <<>>
    /\ \E g \in DOMAIN boundingBoxData.grouped : boundingBoxData.grouped[g].instances # <<>>

ConsensusEmojis == { votingResults.consensus[k].emoji : k \in DOMAIN votingResults.consensus }

\* C5: an emoji is in the emitted consensus if and only if its total_votes
\* is at least 2 (one vote: never emitted; two votes: always emitted).
EmittedIffTwoVotes ==
    Voted =>
        /\ \A a \in DOMAIN votingResults.analysis :
              (votingResults.analysis[a].emoji \in ConsensusEmojis)
                 <=> (votingResults.analysis[a].total_votes >= 2)
        /\ \A e \in ConsensusEmojis :
              \E a \in DOMAIN votingResults.analysis : votingResults.analysis[a].emoji = e
        /\ phase = "responded" =>
              { response.consensus[k].emoji : k \in DOMAIN response.consensus } = ConsensusEmojis

\* One emoji with one vote left out beside one with exactly two votes emitted.
OneVoteOutTwoVotesIn ==
    /\ phase = "responded"
    /\ \E a \in DOMAIN votingResults.analysis :
          /\ votingResults.analysis[a].total_votes = 1
          /\ votingResults.analysis[a].emoji \notin ConsensusEmojis
    /\ \E a \in DOMAIN votingResults.analysis :
          /\ votingResults.analysis[a].total_votes = 2
          /\ votingResults.analysis[a].emoji \in ConsensusEmojis

\* Whether a prediction is a voting prediction for the emoji.
VotesFor(prediction, emoji) ==
    IF prediction.hasMappings
    THEN \E m \in DOMAIN prediction.emoji_mappings : prediction.emoji_mappings[m].emoji = emoji
    ELSE prediction.emoji = emoji /\ prediction.type # "color_analysis"

\* The analyzers with ok = true and a voting prediction for the emoji, by
\* the name the voting service lists them under.
VotersOf(emoji) ==
    { serviceDisplayName(results[r].name) : r \in { k \in DOMAIN results :
        /\ results[k].success
        /\ \E p \in DOMAIN results[k].predictions :
              VotesFor(results[k].predictions[p], emoji) } }

\* C6: for every emitted consensus item, votes is the number of distinct
\* analyzers with ok = true that gave a voting prediction for the emoji and
\* services is exactly that set, each once; the spatial_clustering
\* sentinel is neither counted nor listed.
VotesCountDistinctAnalyzers ==
    Voted =>
        \A k \in DOMAIN votingResults.consensus :
            LET item == votingResults.consensus[k]
            IN  /\ item.votes = Cardinality(VotersOf(item.emoji))
                /\ Range(item.services) = VotersOf(item.emoji)
                /\ Len(item.services) = item.votes
                /\ "spatial_clustering" \notin Range(item.services)

\* An emitted item with an instance (so a sentinel in its group), named
\* twice by one analyzer, while another analyzer failed.
VotedWithSentinelAndRepeat ==
    /\ phase = "responded"
    /\ \E r \in DOMAIN results : ~results[r].success
    /\ \E k \in DOMAIN votingResults.consensus :
          LET item == votingResults.consensus[k]
          IN  /\ item.bounding_boxes # <<>>
              /\ item.votes = 2
              /\ \E r \in DOMAIN results :
                    Cardinality({ p \in DOMAIN results[r].predictions :
                                    VotesFor(results[r].predictions[p], item.emoji) }) >= 2

\* The instances the clustering engine emitted, over all groups.
EmittedInstances ==
    UNION { Range(boundingBoxData.grouped[g].instances) : g \in DOMAIN boundingBoxData.grouped }

\* The raw clusters of a group, as lists of all_detections positions.
RawClusters(g) ==
    LET clusters == findCrossServiceClusters(boundingBoxData.grouped[g].detections)
    IN  { [m \in DOMAIN clusters[c] |-> clusters[c][m].idx] : c \in DOMAIN clusters }

Detection(idx) == boundingBoxData.all_detections[idx]
ServicesOf(members) == { Detection(members[m]).service : m \in DOMAIN members }
BestConfidence(members) == MaxOf({ Detection(members[m]).confidence : m \in DOMAIN members })

\* C7: every emitted instance has at least 2 detections or is a singleton
\* of confidence >= 0.85; a cluster left with one detection by the
\* same-service deduplication is kept exactly when that confidence is
\* >= 0.85, and a cluster left with two or more is never dropped.
SingletonFilter ==
    Clustered =>
        /\ \A inst \in EmittedInstances :
              /\ Len(inst.detections) = inst.detection_count
              /\ \/ inst.detection_count >= 2
                 \/ inst.detection_count = 1 /\ inst.detections[1].confidence >= 85
        /\ \A g \in DOMAIN boundingBoxData.grouped :
              \A raw \in RawClusters(g) :
                 LET kept == { inst \in Range(boundingBoxData.grouped[g].instances) :
                                 Range(inst.members) \subseteq Range(raw) }
                 IN  IF Cardinality(ServicesOf(raw)) >= 2 \/ BestConfidence(raw) >= 85
                     THEN /\ Cardinality(kept) = 1
                          /\ \A inst \in kept :
                                inst.detection_count = Cardinality(ServicesOf(raw))
                     ELSE kept = {}

\* A singleton of confidence exactly 0.85 emitted beside a dropped singleton
\* of lower confidence.
SingletonAtThresholdKept ==
    /\ Clustered
    /\ \E inst \in EmittedInstances :
          inst.detection_count = 1 /\ inst.detections[1].confidence = 85
    /\ \E g \in DOMAIN boundingBoxData.grouped :
          \E raw \in RawClusters(g) :
             /\ Len(raw) = 1
             /\ BestConfidence(raw) < 85
             /\ \A inst \in Range(boundingBoxData.grouped[g].instances) :
                   ~(Range(inst.members) \subseteq Range(raw))

\* IoU(a, b) > 3/10, on the boxes of two all_detections positions.
OverlapsAnchor(i, j) ==
    LET ratio == calculateOverlapRatio(Detection(i).bbox, Detection(j).bbox)
    IN  ratio[1] * 10 > 3 * ratio[2]

\* C8: initial-anchor clustering.  In each group the raw clusters partition
\* the detections; a cluster's first member (its anchor) is its earliest;
\* every other member overlaps the anchor with IoU > 0.30; and a later
\* detection outside the cluster either does not overlap the anchor with
\* IoU > 0.30 or was taken by a cluster with an earlier anchor.
InitialAnchorClustering ==
    Clustered =>
        \A g \in DOMAIN boundingBoxData.grouped :
            LET group == boundingBoxData.grouped[g]
                all == { group.detections[d].idx : d \in DOMAIN group.detections }
                clusterOf(j) == CHOOSE raw \in RawClusters(g) : j \in Range(raw)
            IN  /\ \A j \in all : Cardinality({ raw \in RawClusters(g) : j \in Range(raw) }) = 1
                /\ \A raw \in RawClusters(g) :
                      /\ \A m \in 2..Len(raw) :
                            raw[m] > raw[1] /\ OverlapsAnchor(raw[1], raw[m])
                      /\ \A j \in all \ Range(raw) :
                            j > raw[1] /\ OverlapsAnchor(raw[1], j)
                               => clusterOf(j)[1] < raw[1]

\* A chain A-B-C (C overlaps the member B of A's cluster, not the anchor A,
\* and is not in the cluster) beside a detection whose IoU with the anchor
\* is exactly 0.30 and which is not in the cluster either.
ChainAndExactThresholdLeftOut ==
    /\ Clustered
    /\ \E g \in DOMAIN boundingBoxData.grouped :
          \E raw \in RawClusters(g) :
             LET outside == { boundingBoxData.grouped[g].detections[d].idx :
                                d \in DOMAIN boundingBoxData.grouped[g].detections } \ Range(raw)
             IN  /\ Len(raw) >= 2
                 /\ \E j \in outside :
                       /\ j > raw[2]
                       /\ OverlapsAnchor(raw[2], j)
                       /\ ~OverlapsAnchor(raw[1], j)
                 /\ \E j \in outside :
                       LET ratio == calculateOverlapRatio(Detection(raw[1]).bbox,
                                                          Detection(j).bbox)
                       IN  j > raw[1] /\ ratio[1] * 10 = 3 * ratio[2]

\* The emitted instances holding the detection at an all_detections position.
InstancesHolding(idx) ==
    UNION { { <<g, i>> : i \in { n \in DOMAIN boundingBoxData.grouped[g].instances :
                idx \in Range(boundingBoxData.grouped[g].instances[n].members) } } :
            g \in DOMAIN boundingBoxData.grouped }

\* C9: every entry of all_detections belongs to exactly one emitted instance.
EveryDetectionInOneInstance ==
    Clustered =>
        \A idx \in DOMAIN boundingBoxData.all_detections :
            Cardinality(InstancesHolding(idx)) = 1

\* C10: the merged_bbox of every emitted instance contains every member's
\* bbox and is the smallest such box (each of its sides is the side of a
\* member); for a single member it is that member's bbox.
MergedBboxIsUnion ==
    Clustered =>
        \A inst \in EmittedInstances :
            LET merged == inst.merged_bbox
                boxes == { Detection(inst.members[m]).bbox : m \in DOMAIN inst.members }
            IN  /\ \A b \in boxes :
                      /\ merged.x <= b.x
                      /\ merged.y <= b.y
                      /\ merged.x + merged.width >= b.x + b.width
                      /\ merged.y + merged.height >= b.y + b.height
                /\ \E b \in boxes : merged.x = b.x
                /\ \E b \in boxes : merged.y = b.y
                /\ \E b \in boxes : merged.x + merged.width = b.x + b.width
                /\ \E b \in boxes : merged.y + merged.height = b.y + b.height
                /\ Len(inst.members) = 1 => merged = Detection(inst.members[1]).bbox

\* An instance of two different boxes, larger than each, beside a
\* single-member instance.
MergedLargerThanMembers ==
    /\ Clustered
    /\ \E inst \in EmittedInstances :
          /\ Len(inst.members) = 2
          /\ \A m \in DOMAIN inst.members : inst.merged_bbox # Detection(inst.members[m]).bbox
    /\ \E inst \in EmittedInstances : Len(inst.members) = 1

\* C11: the members of every emitted instance with more than one member
\* come from distinct services, detection_count is the number of those
\* services, and of the detections one service had in the raw cluster the
\* member kept is one of highest confidence.
DistinctServicesPerInstance ==
    Clustered =>
        \A g \in DOMAIN boundingBoxData.grouped :
            \A inst \in Range(boundingBoxData.grouped[g].instances) :
                /\ Len(inst.members) > 1 =>
                      /\ Cardinality(ServicesOf(inst.members)) = Len(inst.members)
                      /\ Cardinality({ inst.detections[d].service : d \in DOMAIN inst.detections })
                            = Len(inst.detections)
                /\ inst.detection_count = Cardinality(ServicesOf(inst.members))
                /\ \A raw \in RawClusters(g) :
                      Range(inst.members) \subseteq Range(raw) =>
                         /\ ServicesOf(inst.members) = ServicesOf(raw)
                         /\ \A m \in DOMAIN inst.members :
                               \A r \in DOMAIN raw :
                                  Detection(raw[r]).service = Detection(inst.members[m]).service
                                     => Detection(raw[r]).confidence
                                           <= Detection(inst.members[m]).confidence

\* A two-member instance left of a raw cluster of three detections, two of
\* them of one service with different confidences.
DeduplicatedInstance ==
    /\ Clustered
    /\ \E g \in DOMAIN boundingBoxData.grouped :
          \E inst \in Range(boundingBoxData.grouped[g].instances) :
             \E raw \in RawClusters(g) :
                /\ Range(inst.members) \subseteq Range(raw)
                /\ Len(inst.members) = 2
                /\ Len(raw) = 3
                /\ \E a \in Range(raw) : \E b \in Range(raw) :
                      /\ Detection(a).service = Detection(b).service
                      /\ Detection(a).confidence < Detection(b).confidence

\* The analyzer's only detection of the emoji was removed by the singleton
\* filter: it has one entry of that emoji in all_detections, and that entry
\* is a member of no emitted instance.
OnlyDetectionDropped(serviceName, emoji) ==
    LET own == { idx \in DOMAIN boundingBoxData.all_detections :
                   /\ Detection(idx).service = serviceName
                   /\ Detection(idx).emoji = emoji }
    IN  /\ Cardinality(own) = 1
        /\ \A idx \in own : InstancesHolding(idx) = {}

\* C12: an analyzer whose only detection of an emoji was removed by the
\* singleton filter is not among the voters of that emoji in the consensus.
DroppedSingletonDoesNotVote ==
    Voted =>
        \A k \in DOMAIN votingResults.consensus :
            \A s \in Range(votingResults.consensus[k].services) :
                ~OnlyDetectionDropped(s, votingResults.consensus[k].emoji)

\* C13: the emitted consensus is sorted by votes descending, ties by the
\* emitted evidence_weight descending.
ConsensusSortedByVotesThenWeight ==
    Voted =>
        \A i \in DOMAIN votingResults.consensus :
            \A j \in DOMAIN votingResults.consensus :
                i < j =>
                    LET a == votingResults.consensus[i]
                        b == votingResults.consensus[j]
                    IN  \/ a.votes > b.votes
                        \/ a.votes = b.votes /\ a.evidence_weight >= b.evidence_weight

\* The detection_counts of the emitted instances of an emoji.
InstanceCounts(emoji) ==
    { inst.detection_count : inst \in { i \in EmittedInstances : i.emoji = emoji } }

\* The caption (semantic) analyzers among the voters; the code has no
\* classification analyzer.
ContentVoters(services) == { s \in Range(services) : s \in {"blip", "llama"} }

\* C14: before curation the evidence weight of every emoji group is
\* total_votes + max(0, max_detection_count - 1) + content bonus, the
\* content bonus being (content services - 1) from two content services
\* on, and final_score = total_votes + weight.
EvidenceWeightFormula ==
    Voted =>
        \A k \in DOMAIN votingResults.analysis :
            LET a == votingResults.analysis[k]
                spatialBonus == IF InstanceCounts(a.emoji) = {} THEN 0
                                ELSE MaxOf(InstanceCounts(a.emoji) \cup {1}) - 1
                content == Cardinality(ContentVoters(a.voting_services))
                contentBonus == IF content >= 2 THEN content - 1 ELSE 0
            IN  /\ a.evidence_weight = a.total_votes + spatialBonus + contentBonus
                /\ a.final_score = a.total_votes + a.evidence_weight

\* A group with both bonuses: a two-detection instance and two caption
\* analyzers.
BothBonusesEarned ==
    /\ Voted
    /\ \E k \in DOMAIN votingResults.analysis :
          LET a == votingResults.analysis[k]
          IN  /\ 2 \in InstanceCounts(a.emoji)
              /\ Cardinality(ContentVoters(a.voting_services)) = 2
              /\ a.evidence_weight = a.total_votes + 2

\* The emoji groups of the image: every emoji some analyzer voted for.
GroupEmojis ==
    { votingResults.analysis[k].emoji : k \in DOMAIN votingResults.analysis }

\* The weight and score of an emoji before curation.
RankedAs(emoji) ==
    LET k == CHOOSE j \in DOMAIN votingResults.analysis :
                 votingResults.analysis[j].emoji = emoji
    IN  votingResults.analysis[k]

\* C15: an emitted NSFW item gets exactly one adjustment: +1 and
\* human_context_confirmed when the person emoji is present for the image,
\* -1 and suspicious_no_humans otherwise; weight and score stay >= 0.
NsfwNeedsHumanContext ==
    Voted =>
        \A k \in DOMAIN votingResults.consensus :
            LET item == votingResults.consensus[k]
                adjustment == IF PersonLiteral \in GroupEmojis THEN 1 ELSE -1
                record == IF PersonLiteral \in GroupEmojis
                          THEN "human_context_confirmed" ELSE "suspicious_no_humans"
            IN  item.emoji = NsfwLiteral =>
                    /\ item.validation = <<record>>
                    /\ item.evidence_weight = RankedAs(item.emoji).evidence_weight + adjustment
                    /\ item.final_score = RankedAs(item.emoji).final_score + adjustment
                    /\ item.evidence_weight >= 0
                    /\ item.final_score >= 0

\* C16: an emitted person item gains 1 weight, 1 score and face_confirmed
\* exactly when the face emoji is in some emoji group of the image.
FaceValidatesPerson ==
    Voted =>
        \A k \in DOMAIN votingResults.consensus :
            LET item == votingResults.consensus[k]
                boost == IF FaceLiteral \in GroupEmojis THEN 1 ELSE 0
            IN  item.emoji = PersonLiteral =>
                    /\ ("face_confirmed" \in Range(item.validation)) <=> (FaceLiteral \in GroupEmojis)
                    /\ item.evidence_weight = RankedAs(item.emoji).evidence_weight + boost
                    /\ item.final_score = RankedAs(item.emoji).final_score + boost

\* The predictions an analyzer returned: those of its fulfilled call.
ReturnedBy(serviceName) ==
    UNION { Range(calls[i].predictions) :
              i \in { n \in DOMAIN mlServices :
                        mlServices[n] = serviceName /\ calls[n].state = "fulfilled" } }

WithoutColorAnalysis(serviceResults) ==
    [r \in DOMAIN serviceResults |->
        [serviceResults[r] EXCEPT !.predictions =
            SelectSeq(@, LAMBDA p : p.type # "color_analysis")]]

\* The emoji some color_analysis prediction of the results carries.
ColorEmojis ==
    { p.emoji : p \in { q \in UNION { Range(results[r].predictions) : r \in DOMAIN results } :
                          q.type = "color_analysis" } }

UnmeasuredDimensionsTolerated ==
    ~imageDimensions.measured =>
        /\ phase # "failed"
        /\ Clustered =>
              \A k \in DOMAIN boundingBoxData.all_detections :
                  boundingBoxData.all_detections[k].bbox
                      = BboxPredictions(results)[k].prediction.bbox

\* C20: a response whose status is "error" is never retried: the attempt
\* that received it is the call's last one and the call is rejected; only
\* a transport error or a deadline expiry is followed by another attempt.
StatusErrorNeverRetried ==
    \A k \in DOMAIN retryCall.attempts :
        /\ retryCall.attempts[k] = "status_error" =>
              k = Len(retryCall.attempts) /\ retryCall.state = "rejected"
        /\ k < Len(retryCall.attempts) =>
              retryCall.attempts[k] \in {"transport", "deadline"}

\* The failures a call can meet, and the error kind each one is to be
\* surfaced with.
FailureCauses ==
    { Fails(c) : c \in {"ECONNREFUSED", "ENOTFOUND", "ECONNRESET", "ETIMEDOUT", "ECONNABORTED"} }
      \cup { Responds(ErrorPayload(<<"model", "crashed">>)),
             Responds([status |-> "not_an_object", predictions |-> <<>>, error |-> <<>>]) }

KindOfCause(outcome) ==
    IF outcome.responded THEN "error"
    ELSE IF outcome.code \in {"ECONNREFUSED", "ENOTFOUND"} THEN "offline"
    ELSE "timeout"

\* C21: the status recorded for a failed analyzer is the error kind of the
\* failure's cause: offline for a refused connection or a DNS failure,
\* timeout for a deadline expiry or a reset, error for a bad response.
ErrorKindOfCause ==
    Collected /\ phase # "failed" =>
        \A i \in DOMAIN mlServices : \A cause \in FailureCauses :
            calls[i] = analyze(mlServices[i], cause) =>
                \A k \in DOMAIN serviceStatusList :
                    serviceStatusList[k].service = mlServices[i] =>
                        serviceStatusList[k].status = KindOfCause(cause)

\* C22: a caption whose scoring call rejects is still emitted, with
\* clip_similarity null and its meaningful word count; a caption whose
\* scoring call returned a score carries that score whatever happened to
\* the other one; and the request does not fail in the caption step.
ScoringFailureKeepsCaption ==
    /\ phase = "failed" => captionsData = NoCaptionsData
    /\ Captioned =>
         /\ Len(captionsData.captions) = Len(extractCaptions(results))
         /\ \A k \in DOMAIN captionsData.captions :
               LET caption == captionsData.captions[k]
                   call == captionsData.scoring[k]
               IN  /\ caption.original = extractCaptions(results)[k].text
                   /\ caption.words =
                         Cardinality({ w \in DOMAIN caption.original :
                                         caption.original[w] \notin StopWords })
                   /\ call.state = "rejected" => caption.clip_similarity = NullSimilarity
                   /\ call.state = "fulfilled" =>
                         caption.clip_similarity
                            = [null |-> FALSE, value |-> call.similarity_score]
    /\ phase = "responded" => response.captions = captionsData.captions

\* A response with two captions, the first unscored (its scoring call
\* rejected), the second scored.
OneCaptionUnscored ==
    /\ phase = "responded"
    /\ Len(response.captions) = 2
    /\ captionsData.scoring[1].state = "rejected"
    /\ response.captions[1].clip_similarity.null
    /\ response.captions[1].words = 2
    /\ ~response.captions[2].clip_similarity.null

\* The response of a request processed alone whose analyzer calls and
\* scoring calls meet the given outcomes.
AloneResponse(met) ==
    LET settled == [i \in DOMAIN mlServices |-> analyze(mlServices[i], met.calls[i])]
        aloneResults == [i \in DOMAIN mlServices |-> ResultEntry(mlServices[i], settled[i])]
        aloneStatus == [i \in DOMAIN mlServices |-> StatusEntry(mlServices[i], settled[i])]
        aloneBoxes == processBoundingBoxes(aloneResults, imageDimensions)
        aloneScoring == [k \in DOMAIN extractCaptions(aloneResults) |->
                            IF k <= Len(met.scoring) THEN met.scoring[k]
                            ELSE Fails("NOT_CALLED")]
    IN  createCompactResponse(aloneStatus, processVotes(aloneResults, aloneBoxes),
                              aggregateCaptions(aloneResults, aloneScoring),
                              aloneBoxes, aloneResults, HealthSummary(aloneStatus))

\* C23: requests do not interfere: however the steps of two requests
\* interleave, the response delivered to each is the response it would get
\* alone from the outcomes its own calls met.
RequestsDoNotInterfere ==
    \A r \in Requests :
        concurrent.pc[r] = "responded" =>
            concurrent.delivered[r] = AloneResponse(concurrent.met[r])

\* Two requests that were in flight together were answered differently.
InterleavedAndAnsweredApart ==
    /\ \A r \in Requests : concurrent.pc[r] = "responded"
    /\ concurrent.overlapped
    /\ concurrent.delivered[1] # concurrent.delivered[2]
    /\ concurrent.delivered[1].consensus # <<>>
    /\ concurrent.delivered[2].consensus = <<>>

\* C24: once a request is over, no temporary file the API created for it
\* (a downloaded image, an uploaded image) is left, whether its analysis
\* returned or threw, and the file given by direct path is still there.
TemporaryFilesDeleted ==
    handler.pc = "idle" => handler.files = {DirectFile}

\* The position of a service id in ascending id order.
IdRank(id) == CHOOSE k \in DOMAIN SortedServiceIds : SortedServiceIds[k] = id

\* C25: the response's results hold exactly one entry per analyzer called,
\* failed ones included, in ascending service-id order; an entry's status
\* is the one the status list records for the analyzer and its predictions
\* are those the analyzer returned (none for a failed analyzer).
CompactResultPerAnalyzer ==
    phase = "responded" =>
        /\ Len(response.results) = Len(mlServices)
        /\ \A j, k \in DOMAIN response.results :
              j < k => IdRank(response.results[j].name) < IdRank(response.results[k].name)
        /\ \A i \in DOMAIN mlServices :
              \E k \in DOMAIN response.results :
                  LET entry == response.results[k]
                  IN  /\ entry.name = mlServices[i]
                      /\ \E s \in DOMAIN serviceStatusList :
                            /\ serviceStatusList[s].service = mlServices[i]
                            /\ serviceStatusList[s].status = entry.status
                      /\ entry.status \in {"success", "timeout", "error"}
                      /\ entry.success <=> calls[i].state = "fulfilled"
                      /\ entry.predictions =
                            IF calls[i].state = "fulfilled" THEN calls[i].predictions
                            ELSE <<>>

\* A response with a timed-out analyzer, a failed one and one that
\* returned predictions, listed in another order than they were called in.
MixedCompactResults ==
    /\ phase = "responded"
    /\ \E k \in DOMAIN response.results : response.results[k].status = "timeout"
    /\ \E k \in DOMAIN response.results : response.results[k].status = "error"
    /\ \E k \in DOMAIN response.results :
          response.results[k].status = "success" /\ response.results[k].predictions # <<>>
    /\ \E k \in DOMAIN response.results : response.results[k].name # mlServices[k]

\* C26: every bounding_boxes entry of a consensus item in the response is
\* a surviving instance of the clustering engine for that emoji (two or
\* more detections of distinct services, or one detection of confidence
\* 0.85 or more); a detection removed by the singleton filter appears in
\* no bounding_boxes list, also when its emoji has no instance left.
BoundingBoxesAreSurvivingInstances ==
    phase = "responded" =>
        \A k \in DOMAIN response.consensus :
            \A b \in Range(response.consensus[k].bounding_boxes) :
                /\ \E g \in DOMAIN boundingBoxData.grouped :
                      \E inst \in Range(boundingBoxData.grouped[g].instances) :
                          /\ inst.emoji = response.consensus[k].emoji
                          /\ inst.cluster_id = b.cluster_id
                          /\ inst.merged_bbox = b.merged_bbox
                          /\ inst.detection_count = b.detection_count
                          /\ inst.detections = b.detections
                /\ \/ /\ Len(b.detections) >= 2
                      /\ Cardinality({ b.detections[d].service : d \in DOMAIN b.detections })
                            = Len(b.detections)
                   \/ /\ Len(b.detections) = 1
                      /\ b.detections[1].confidence >= CONFIDENCE_SHOUT_THRESHOLD

\* The detections an emitted instance is made of.
EmittedMembers(inst) == [m \in DOMAIN inst.members |-> Detection(inst.members[m])]

\* C27: within one emoji group the emitted instances are in descending
\* order of cluster score, the score computed from the members the
\* instance is emitted with (after cleaning), and the k-th instance has
\* the cluster_id <label>_k, so the ids of a group are distinct.
InstancesInDescendingScore ==
    Clustered =>
        \A g \in DOMAIN boundingBoxData.grouped :
            LET instances == boundingBoxData.grouped[g].instances
            IN  /\ \A j, k \in DOMAIN instances :
                      j < k => calculateClusterScore(EmittedMembers(instances[j]))
                                  >= calculateClusterScore(EmittedMembers(instances[k]))
                /\ \A k \in DOMAIN instances :
                      instances[k].cluster_id = <<instances[k].label, k>>
                /\ \A j, k \in DOMAIN instances :
                      j # k => instances[j].cluster_id # instances[k].cluster_id

\* The attempts made so far fit the call's position: a failed attempt is
\* followed by a wait only while retryCount < maxRetries, the call is
\* rejected by the failure of the attempt numbered maxRetries + 1 only,
\* and a successful attempt is the last one.
AttemptsWithinBudget ==
    LET n == Len(retryCall.attempts)
    IN  /\ n <= ML_MAX_RETRIES + 1
        /\ \A k \in 1..n : retryCall.attempts[k] = "success" =>
              k = n /\ retryCall.state = "fulfilled"
        /\ retryCall.state = "requesting" => n = retryCall.retryCount
        /\ retryCall.state = "backoff" =>
              /\ n = retryCall.retryCount + 1
              /\ retryCall.retryCount < ML_MAX_RETRIES
              /\ retryCall.attempts[n] # "success"
        /\ retryCall.state = "rejected" =>
              /\ n = ML_MAX_RETRIES + 1
              /\ retryCall.retryCount = ML_MAX_RETRIES
              /\ retryCall.attempts[n] # "success"
        /\ retryCall.state = "fulfilled" =>
              /\ n = retryCall.retryCount + 1
              /\ retryCall.attempts[n] = "success"

\* C28: a call with retries makes at most maxRetries + 1 attempts, waiting
\* and trying again after a failed attempt with retryCount < maxRetries,
\* rejecting at the failure of attempt maxRetries + 1 and ending at once
\* on a success; once its attempts settle the call is fulfilled or
\* rejected, and nothing happens after that.
RetriesBoundedAndCallSettles ==
    /\ []AttemptsWithinBudget
    /\ [][retryCall.state \in {"fulfilled", "rejected"} => retryCall' = retryCall]_vars
    /\ <>(retryCall.state \in {"fulfilled", "rejected"})

\* A call rejected at its last permitted attempt, after two waits.
RejectedAfterLastAttempt ==
    /\ retryCall.state = "rejected"
    /\ Len(retryCall.attempts) = ML_MAX_RETRIES + 1
    /\ retryCall.retryCount = ML_MAX_RETRIES

\* Whether the analyzer's predictions mark the emoji shiny anywhere: in a
\* caption mapping, or in a direct prediction that takes part in voting.
MarksShiny(serviceName, emoji) ==
    \E p \in ReturnedBy(serviceName) :
        IF p.hasMappings
        THEN \E m \in DOMAIN p.emoji_mappings :
                p.emoji_mappings[m].emoji = emoji /\ p.emoji_mappings[m].shiny
        ELSE p.type # "color_analysis" /\ p.emoji = emoji /\ p.shiny

\* C29: a consensus item is shiny exactly when one of the analyzers voting
\* for its emoji marked the emoji shiny in any of its mappings or
\* predictions, also after naming the emoji without the flag.
ShinyIffAnyContributor ==
    Voted =>
        \A k \in DOMAIN votingResults.consensus :
            LET item == votingResults.consensus[k]
            IN  item.shiny <=>
                   \E n \in DOMAIN mlServices :
                       /\ serviceDisplayName(mlServices[n]) \in Range(item.services)
                       /\ MarksShiny(mlServices[n], item.emoji)

\* C30: every emitted consensus item has final_score = votes +
\* evidence_weight and evidence_weight >= 0, in the ranking before
\* curation and in the consensus after any curation adjustments, which
\* never bring the weight of an item of two or more votes down to 0.
FinalScoreIsVotesPlusWeight ==
    Voted =>
        /\ \A a \in Range(votingResults.analysis) :
              a.should_include =>
                 /\ a.final_score = a.total_votes + a.evidence_weight
                 /\ a.evidence_weight >= 0
        /\ \A item \in Range(votingResults.consensus) :
              /\ item.final_score = item.votes + item.evidence_weight
              /\ item.evidence_weight > 0
              /\ item.votes >= 2
        /\ phase = "responded" =>
              \A item \in Range(response.consensus) :
                  /\ item.final_score = item.votes + item.evidence_weight
                  /\ item.evidence_weight >= 0

\* A response with an item whose weight curation lowered by one.
ItemLoweredByCuration ==
    /\ phase = "responded"
    /\ \E item \in Range(response.consensus) :
          /\ item.validation = <<"suspicious_no_humans">>
          /\ \E a \in Range(votingResults.analysis) :
                a.emoji = item.emoji /\ item.evidence_weight = a.evidence_weight - 1

====
